---- MODULE Spec2Model ----
(***************************************************************************)
(* Batch defect transfer (src/batch_transfer): BatchGenerator.generate_batch *)
(* as a state machine.  The arguments of generate_batch are the fields the  *)
(* dialog reads from LayerEditor and DefectManager when the start button is *)
(* pressed (BatchTransferDialog.on_start_batch_transfer); they stay fixed   *)
(* while the batch runs, because the run is synchronous.  One action is one *)
(* stretch of generate_batch: the parameter checks, the start of an output  *)
(* image, one pass of the per-defect loop, the writing of one image.        *)
(* Two further specifications run the handlers that build those fields:     *)
(* ManagerSpec the defect manager's (the defect list, its ticks, the saved   *)
(* and loaded settings), EditorSpec the layer editor's (drawing, putting a   *)
(* contour aside, saving and resetting a layer).  DialogSpec runs the       *)
(* handlers that act on saved regions (choosing a target image, changing    *)
(* the layer count, showing a layer), ScenarioSpec one call of              *)
(* generate_batch on a large canvas, and TransferSpec the single-defect     *)
(* tool DefectTransferNew (src/defect_transfer.py).                         *)
(*                                                                         *)
(* Pixels are <<x, y>> pairs; an image is a function from its pixels to one *)
(* 8-bit value (the three colour channels are treated alike by the code).   *)
(* A file path is modelled by its base name.                                *)
(***************************************************************************)
EXTENDS Integers, Sequences, FiniteSets, TLC

\* ------------------------------------------------------------------ bounds
\* Width and height of the decoded target image.
TargetWidth == 12
TargetHeight == 11
\* Largest value of the "generate count" spin box that is explored.
MaxCount == 2
\* Largest value of the "max defects per image" spin box that is explored.
MaxDefects == 2

\* --------------------------------------------------------- program constants
MinSpriteSize == 10
DefaultLayerCount == 3
DefaultMaxDefects == 3
Opaque == 255

max(a, b) == IF a >= b THEN a ELSE b
min(a, b) == IF a <= b THEN a ELSE b

None == [kind |-> "None"]

Pixels(w, h) == (0 .. w - 1) \X (0 .. h - 1)

\* ------------------------------------------------------------- environment
\* The files the user can pick.  A target image decodes to a TargetWidth x
\* TargetHeight canvas with a two-tone pattern; "broken.bmp" does not decode;
\* "old.bmp" is a second target image, of OldWidth x OldHeight pixels.
TargetPaths == {"", "target.bmp", "broken.bmp"}

OldWidth == 6
OldHeight == 5

\* A large target image, "canvas.bmp", and a square sprite, "block.bmp",
\* given by their sizes; the pixel values of the large canvas are not kept.
CanvasWidth == 800
CanvasHeight == 600
BlockSize == 100

imread_target(path) ==
    IF path = "target.bmp"
    THEN [w |-> TargetWidth, h |-> TargetHeight,
          px |-> [p \in Pixels(TargetWidth, TargetHeight) |-> 10 + ((p[1] + p[2]) % 2)]]
    ELSE IF path = "old.bmp"
    THEN [w |-> OldWidth, h |-> OldHeight,
          px |-> [p \in Pixels(OldWidth, OldHeight) |-> 10 + ((p[1] + p[2]) % 2)]]
    ELSE IF path = "canvas.bmp"
    THEN [w |-> CanvasWidth, h |-> CanvasHeight, px |-> <<>>]
    ELSE None

\* The defect sprites on disk: source size and whether the file carries an
\* alpha channel (cv2.IMREAD_UNCHANGED keeps it).  "dark.bmp" is a black
\* sprite: no pixel of it is above the threshold of line 466.
DefectFiles == {"a.png", "b.bmp", "dark.bmp", "block.bmp"}

DefectShape(name) ==
    IF name = "a.png" THEN [w |-> 10, h |-> 10, alpha |-> TRUE, colour |-> 200]
    ELSE IF name = "dark.bmp" THEN [w |-> 10, h |-> 10, alpha |-> FALSE, colour |-> 0]
    ELSE IF name = "block.bmp"
    THEN [w |-> BlockSize, h |-> BlockSize, alpha |-> FALSE, colour |-> 100]
    ELSE [w |-> 12, h |-> 10, alpha |-> FALSE, colour |-> 100]

\* ------------------------------------------------- the layer editor's state
\* A contour drawn with the rectangle tool (ImageViewer._create_rect_contour):
\* the corner points (x1,y1), (x2,y1), (x2,y2), (x1,y2), closed.
BigContour == [x1 |-> 1, y1 |-> 0, x2 |-> 11, y2 |-> 10]
SmallContour == [x1 |-> 2, y1 |-> 2, x2 |-> 5, y2 |-> 5]
RingOuter == [x1 |-> 9, y1 |-> 8, x2 |-> 11, y2 |-> 10]
RingInner == [x1 |-> 10, y1 |-> 9, x2 |-> 10, y2 |-> 9]
\* Contours drawn on an earlier target image of OldWidth x OldHeight pixels.
OldOuter == [x1 |-> 1, y1 |-> 1, x2 |-> 2, y2 |-> 2]
OldInner == [x1 |-> 1, y1 |-> 1, x2 |-> 1, y2 |-> 1]
\* A contour dragged off the canvas (dragging moves the points unclamped).
OutsideContour == [x1 |-> 20, y1 |-> 20, x2 |-> 22, y2 |-> 22]
\* An outer contour and an inner contour drawn around it.
CoveredOuter == [x1 |-> 3, y1 |-> 3, x2 |-> 4, y2 |-> 4]
CoveringInner == [x1 |-> 2, y1 |-> 2, x2 |-> 6, y2 |-> 6]

\* cv2.fillPoly of a rectangle contour into a zeroed height x width array:
\* the pixels of the closed rectangle that fall inside the array.
fillPoly(contour, width, height) ==
    LET columns == (IF contour.x1 < 0 THEN 0 ELSE contour.x1)
                       .. (IF contour.x2 > width - 1 THEN width - 1 ELSE contour.x2)
        rows == (IF contour.y1 < 0 THEN 0 ELSE contour.y1)
                    .. (IF contour.y2 > height - 1 THEN height - 1 ELSE contour.y2)
    IN  columns \X rows

RECURSIVE subtract_inner(_, _, _, _)
subtract_inner(mask, inners, width, height) ==
    IF inners = <<>> THEN mask
    ELSE subtract_inner(mask \ fillPoly(Head(inners), width, height),
                        Tail(inners), width, height)

\* The raster with the first inner contour subtracted only.
hollow_mask_first_inner(contours, width, height) ==
    [kind |-> "array", w |-> width, h |-> height,
     px |-> fillPoly(contours[1], width, height)
               \ fillPoly(contours[2], width, height)]

\* The raster save_current_layer stores for several pending contours: the
\* first one filled, every later one filled on its own and subtracted
\* (cv2.subtract saturates at 0).
hollow_mask(contours, width, height) ==
    [kind |-> "array", w |-> width, h |-> height,
     px |-> subtract_inner(fillPoly(Head(contours), width, height),
                           Tail(contours), width, height)]

\* The vertex list save_current_layer stores for a single pending contour.
solid_mask(contour) == [kind |-> "list", contour |-> contour]

\* LayerEditor._update_layer_checkboxes(count) on a fresh editor: one checked
\* box per layer, and layer_masks[i] = None for every layer that has no entry.
_update_layer_checkboxes(count) ==
    [layer_masks |-> [l \in 1 .. count |-> None],
     layer_checkboxes |-> [l \in 1 .. count |-> TRUE],
     hollow_layers |-> <<>>]

\* Editor states the handlers lead to from the constructed editor
\* (_init_ui calls _update_layer_checkboxes(3); lowering the count rebuilds
\* the boxes and keeps every entry of layer_masks):
\*   1  nothing drawn yet;
\*   2  layer 1 saved from one contour, layer 2 saved from an outer and an
\*      inner contour, layer 3 unticked;
\*   3  layer 1 saved, every box unticked;
\*   4  count lowered to 2, layer 2 saved from one small contour, layer 1
\*      never saved;
\*   5  count lowered to 1, layer 1 saved as a ring, then a target image of
\*      another size chosen (the stored raster keeps its size);
\*   6  layer 1 saved from one contour that lies off the canvas;
\*   7  layer 1 saved from an outer contour and an inner contour that
\*      covers it.
LayerSetups ==
    LET fresh == _update_layer_checkboxes(DefaultLayerCount)
        ring == hollow_mask(<<RingOuter, RingInner>>, TargetWidth, TargetHeight)
        old == hollow_mask(<<OldOuter, OldInner>>, OldWidth, OldHeight)
        covered == hollow_mask(<<CoveredOuter, CoveringInner>>, TargetWidth, TargetHeight)
    IN << fresh,
          [layer_masks |-> <<solid_mask(BigContour), ring, None>>,
           layer_checkboxes |-> <<TRUE, TRUE, FALSE>>,
           hollow_layers |-> (1 :> FALSE) @@ (2 :> TRUE)],
          [layer_masks |-> <<solid_mask(BigContour), None, None>>,
           layer_checkboxes |-> <<FALSE, FALSE, FALSE>>,
           hollow_layers |-> (1 :> FALSE)],
          [layer_masks |-> <<None, solid_mask(SmallContour), None>>,
           layer_checkboxes |-> <<TRUE, TRUE>>,
           hollow_layers |-> (2 :> FALSE)],
          [layer_masks |-> <<old, None, None>>,
           layer_checkboxes |-> <<TRUE>>,
           hollow_layers |-> (1 :> TRUE)],
          [layer_masks |-> <<solid_mask(OutsideContour), None, None>>,
           layer_checkboxes |-> <<TRUE, FALSE, FALSE>>,
           hollow_layers |-> (1 :> FALSE)],
          [layer_masks |-> <<covered, None, None>>,
           layer_checkboxes |-> <<TRUE, FALSE, FALSE>>,
           hollow_layers |-> (1 :> TRUE)] >>

\* ----------------------------------------------- the defect manager's state
NoKey == "<no defect_type key>"

\* The entry select_defect creates for a newly listed defect.
default_info ==
    [scale_min |-> 100, scale_max |-> 100, alpha_min |-> 100, alpha_max |-> 100,
     angle_min |-> 0, angle_max |-> 360, defect_type |-> NoKey]

\* Manager states the handlers lead to:
\*   1  no defect image chosen yet;
\*   2  a.png and b.bmp chosen, nothing edited;
\*   3  the same, a.png saved with alpha 0..0, angle 0..0 and a category,
\*      b.bmp unticked; c.png is remembered from an earlier choice;
\*   4  the same, a.png saved with scale 50..150 and angle 0..45, b.bmp saved
\*      with alpha 0..100, angle 0..0 and an empty category;
\*   5  a.png and b.bmp chosen and both unticked;
\*   6  a.png saved with angle 0..0, b.bmp saved with alpha 0..100 and
\*      angle 0..0;
\*   7  dark.bmp chosen and saved with angle 0..0.
DefectSetups ==
    << [selected_defect_paths |-> <<>>,
        defect_selection_status |-> <<>>,
        preview_defects |-> <<>>],
       [selected_defect_paths |-> <<"a.png", "b.bmp">>,
        defect_selection_status |-> ("a.png" :> TRUE) @@ ("b.bmp" :> TRUE),
        preview_defects |-> ("a.png" :> default_info) @@ ("b.bmp" :> default_info)],
       [selected_defect_paths |-> <<"a.png", "b.bmp">>,
        defect_selection_status |->
            ("a.png" :> TRUE) @@ ("b.bmp" :> FALSE) @@ ("c.png" :> TRUE),
        preview_defects |->
            ("a.png" :> [default_info EXCEPT !.alpha_min = 0, !.alpha_max = 0,
                                             !.angle_max = 0, !.defect_type = "scratch"])
            @@ ("b.bmp" :> default_info) @@ ("c.png" :> default_info)],
       [selected_defect_paths |-> <<"a.png", "b.bmp">>,
        defect_selection_status |-> ("a.png" :> TRUE) @@ ("b.bmp" :> TRUE),
        preview_defects |->
            ("a.png" :> [default_info EXCEPT !.scale_min = 50, !.scale_max = 150,
                                             !.angle_max = 45])
            @@ ("b.bmp" :> [default_info EXCEPT !.alpha_min = 0, !.angle_max = 0,
                                                !.defect_type = ""])],
       [selected_defect_paths |-> <<"a.png", "b.bmp">>,
        defect_selection_status |-> ("a.png" :> FALSE) @@ ("b.bmp" :> FALSE),
        preview_defects |-> ("a.png" :> default_info) @@ ("b.bmp" :> default_info)],
       [selected_defect_paths |-> <<"a.png", "b.bmp">>,
        defect_selection_status |-> ("a.png" :> TRUE) @@ ("b.bmp" :> TRUE),
        preview_defects |->
            ("a.png" :> [default_info EXCEPT !.angle_max = 0])
            @@ ("b.bmp" :> [default_info EXCEPT !.alpha_min = 0, !.angle_max = 0])],
       [selected_defect_paths |-> <<"dark.bmp">>,
        defect_selection_status |-> ("dark.bmp" :> TRUE),
        preview_defects |-> ("dark.bmp" :> [default_info EXCEPT !.angle_max = 0])] >>

\* ------------------------------------------------- the calls of generate_batch
\* One call: the dialog's fields as on_start_batch_transfer passes them, and
\* the defect files that do not decode.
request(d, l, target, dir, count, random_layer, random_defect, max_defects, bad) ==
    [target_image_path |-> target, save_dir |-> dir, generate_count |-> count,
     defects |-> DefectSetups[d], layers |-> LayerSetups[l],
     chk_random_layer |-> random_layer, chk_random_defect |-> random_defect,
     spin_max_defects |-> max_defects, unreadable |-> bad]

\* The calls that are explored: every way a parameter check can fail; the
\* freshly constructed dialog with two defects chosen; edited editors and
\* managers with the random-layer box either way; a black sprite on a fresh
\* and on an edited editor; and batches of several images with the
\* random-defect box either way.
Requests ==
    {request(d, l, target, dir, 1, FALSE, FALSE, 1, {}) :
        d \in {1, 2, 5}, l \in {1, 3}, target \in TargetPaths, dir \in {"", "out"}}
    \cup
    {request(2, 1, "target.bmp", "out", 1, FALSE, FALSE, 1, bad) :
        bad \in {{}, {"b.bmp"}}}
    \cup
    {request(3, l, "target.bmp", "out", 1, random_layer, FALSE, 1, {}) :
        l \in {2, 5}, random_layer \in BOOLEAN}
    \cup
    {request(4, 4, "target.bmp", "out", 1, random_layer, FALSE, 1, {}) :
        random_layer \in BOOLEAN}
    \cup
    {request(4, l, "target.bmp", "out", 1, FALSE, FALSE, 1, {}) : l \in {2, 6, 7}}
    \cup
    {request(7, l, "target.bmp", "out", 1, FALSE, FALSE, 1, {}) : l \in {1, 2}}
    \cup
    {request(6, 2, "target.bmp", "out", count, FALSE, random_defect, max_defects, bad) :
        count \in 1 .. MaxCount, random_defect \in BOOLEAN,
        max_defects \in 1 .. MaxDefects, bad \in {{}, {"b.bmp"}}}

\* ------------------------------------------------------------------- state
VARIABLES
    \* arguments of generate_batch
    target_image_path, save_dir, generate_count,
    selected_defect_paths, defect_selection_status, preview_defects,
    layer_masks, layer_checkboxes, hollow_layers,
    chk_random_layer, chk_random_defect, spin_max_defects,
    \* the defect files cv2.imread cannot decode
    unreadable,
    \* the rest of the defect manager: the defect whose settings are shown
    \* ("" for None), the row clicked last, and the JSON files of
    \* defect_configs/ by defect name
    current_selected_defect, last_clicked_index, config_files,
    \* the rest of the layer editor: the contours put aside for the layer
    \* being drawn (by layer), the contour on the viewer (<<>> for none) and
    \* the layer being edited
    layer_contours, contour_points, current_layer,
    \* the DefectTransferNew object of the single-defect tool, what its caller
    \* got from the last call, and the files it wrote
    defect_transfer,
    \* position and locals of generate_batch
    pc, i, defects_to_transfer, k, result_image, defect_info_list, inst,
    \* what the run has produced
    files, output, messages

dialog_state == <<target_image_path, save_dir, generate_count,
                  selected_defect_paths, defect_selection_status, preview_defects,
                  layer_masks, layer_checkboxes, hollow_layers,
                  chk_random_layer, chk_random_defect, spin_max_defects, unreadable,
                  current_selected_defect, last_clicked_index, config_files,
                  layer_contours, contour_points, current_layer>>
args == <<dialog_state, defect_transfer>>
locals == <<pc, i, defects_to_transfer, k, result_image, defect_info_list, inst>>
vars == <<args, locals, files, output, messages>>

Init ==
    /\ \E r \in Requests :
          /\ target_image_path = r.target_image_path
          /\ save_dir = r.save_dir
          /\ generate_count = r.generate_count
          /\ selected_defect_paths = r.defects.selected_defect_paths
          /\ defect_selection_status = r.defects.defect_selection_status
          /\ preview_defects = r.defects.preview_defects
          /\ layer_masks = r.layers.layer_masks
          /\ layer_checkboxes = r.layers.layer_checkboxes
          /\ hollow_layers = r.layers.hollow_layers
          /\ chk_random_layer = r.chk_random_layer
          /\ chk_random_defect = r.chk_random_defect
          /\ spin_max_defects = r.spin_max_defects
          /\ unreadable = r.unreadable
    /\ current_selected_defect = ""
    /\ last_clicked_index = -1
    /\ config_files = <<>>
    /\ layer_contours = [l \in 1 .. DefaultLayerCount |-> <<>>]
    /\ contour_points = <<>>
    /\ current_layer = 1
    /\ defect_transfer = None
    /\ pc = "idle"
    /\ i = 0
    /\ defects_to_transfer = <<>>
    /\ k = 0
    /\ result_image = None
    /\ defect_info_list = <<>>
    /\ inst = None
    /\ files = <<>>
    /\ output = None
    /\ messages = <<>>

\* ------------------------------------------------ generate_batch: the checks
\* The ticked defects, in list order (lines 53-63).
selected_defects ==
    SelectSeq(selected_defect_paths,
              LAMBDA name : /\ name \in DOMAIN defect_selection_status
                            /\ defect_selection_status[name])

\* The ticked layers that have an entry in layer_masks, in layer order
\* (lines 69-74).
selected_layers ==
    SelectSeq([l \in 1 .. Len(layer_checkboxes) |-> l],
              LAMBDA l : layer_checkboxes[l] /\ l \in DOMAIN layer_masks)

target_image == imread_target(target_image_path)

\* The checks without the one of the save directory.
StartMessage_without_save_dir ==
    IF target_image_path = "" THEN "warning: select a target image"
    ELSE IF selected_defect_paths = <<>> THEN "warning: select defect images"
    ELSE IF selected_defects = <<>> THEN "warning: tick a defect"
    ELSE IF selected_layers = <<>> THEN "warning: tick a layer"
    ELSE IF target_image = None THEN "critical: cannot load the target image"
    ELSE ""

\* The message box generate_batch ends with when it does not enter the loop,
\* "" when it does (lines 41-83; the raise of line 83 is shown by line 593).
StartMessage ==
    IF target_image_path = "" THEN "warning: select a target image"
    ELSE IF save_dir = "" THEN "warning: select a save path"
    ELSE IF selected_defect_paths = <<>> THEN "warning: select defect images"
    ELSE IF selected_defects = <<>> THEN "warning: tick a defect"
    ELSE IF selected_layers = <<>> THEN "warning: tick a layer"
    ELSE IF target_image = None THEN "critical: cannot load the target image"
    ELSE ""

StartBatch ==
    /\ pc = "idle"
    /\ IF StartMessage # ""
       THEN /\ messages' = Append(messages, StartMessage)
            /\ pc' = "done"
       ELSE /\ messages' = messages
            /\ pc' = "image"
    /\ UNCHANGED <<args, i, defects_to_transfer, k, result_image,
                   defect_info_list, inst, files, output>>

\* ------------------------------------------ generate_batch: one output image
\* random.choices(seq, k=n): n entries of seq, repeats allowed.
choices(seq, n) == {[j \in 1 .. n |-> seq[f[j]]] : f \in [1 .. n -> 1 .. Len(seq)]}

\* random.sample(seq, n): n entries of seq at pairwise different positions,
\* in any order.
sample(seq, n) ==
    {[j \in 1 .. n |-> seq[f[j]]] :
        f \in {g \in [1 .. n -> 1 .. Len(seq)] :
                  \A a, b \in 1 .. n : a # b => g[a] # g[b]}}

\* Lines 92-103: the defects of this image.
defect_choices ==
    IF chk_random_defect /\ selected_defects # <<>>
    THEN UNION {sample(selected_defects, num_to_keep) :
                   num_to_keep \in 1 .. min(spin_max_defects, Len(selected_defects))}
    ELSE {selected_defects}

\* The start of an image on the canvas and the record list the image before
\* it left behind.
BeginImage_on_last_canvas ==
    /\ pc = "image"
    /\ i < generate_count
    /\ result_image' = IF result_image = None THEN target_image ELSE result_image
    /\ defect_info_list' = defect_info_list
    /\ defects_to_transfer' \in defect_choices
    /\ k' = 1
    /\ inst' = None
    /\ output' = None
    /\ pc' = "defect"
    /\ UNCHANGED <<args, i, files, messages>>

\* Lines 86-103: the loop test, the copy of the target image, the empty
\* record list and the choice of the defects.
BeginImage ==
    /\ pc = "image"
    /\ i < generate_count
    /\ result_image' = target_image
    /\ defect_info_list' = <<>>
    /\ defects_to_transfer' \in defect_choices
    /\ k' = 1
    /\ inst' = None
    /\ output' = None
    /\ pc' = "defect"
    /\ UNCHANGED <<args, i, files, messages>>

\* The text of the box of line 590.
success(count, dir) ==
    "information: generated " \o ToString(count) \o " images to " \o dir

\* Line 590: the loop is over.
Finish ==
    /\ pc = "image"
    /\ i = generate_count
    /\ messages' = Append(messages, success(generate_count, save_dir))
    /\ pc' = "done"
    /\ UNCHANGED <<args, i, defects_to_transfer, k, result_image,
                   defect_info_list, inst, files, output>>

\* ----------------------------------------- generate_batch: one defect instance
\* The values of the percent and degree settings that are explored.
Percents == {0, 50, 100, 150}
Degrees == {0, 45, 90}

\* random.randint(lo, hi): the end points and the explored values between
\* them; empty when lo > hi (randint raises ValueError).
randint(lo, hi, explored) == {v \in lo .. hi : v \in explored \cup {lo, hi}}

\* defect['info']: preview_defects.get(defect_name, {}) read with the
\* defaults of lines 114-119.
defect_info(name) ==
    IF name \in DOMAIN preview_defects THEN preview_defects[name] ELSE default_info

SetMin(S) == CHOOSE v \in S : \A u \in S : v <= u
SetMax(S) == CHOOSE v \in S : \A u \in S : v >= u
abs(a) == IF a < 0 THEN -a ELSE a

\* Line 154.
is_hollow(layer_num) ==
    layer_num \in DOMAIN hollow_layers /\ hollow_layers[layer_num]

\* skimage.transform.resize(array, (height, width), preserve_range=True,
\* anti_aliasing=False) as far as "> 0" sees it: linear interpolation on the
\* pixel-centre grid, so an output pixel is positive exactly when one of the
\* source pixels that weigh into it is.  taps(o, n, m): the source indices
\* that weigh into output index o when n samples are resized to m.
mirror(idx, n) ==
    IF n = 1 THEN 0
    ELSE IF idx < 0 THEN -idx
    ELSE IF idx > n - 1 THEN 2 * (n - 1) - idx
    ELSE idx

taps(o, n, m) ==
    LET c2 == (2 * o + 1) * n - m
        lo == c2 \div (2 * m)
    IN  {mirror(lo, n)} \cup (IF c2 % (2 * m) # 0 THEN {mirror(lo + 1, n)} ELSE {})

resize(array, width, height) ==
    [kind |-> "array", w |-> width, h |-> height,
     px |-> {p \in Pixels(width, height) :
                \E sx \in taps(p[1], array.w, width), sy \in taps(p[2], array.h, height) :
                    <<sx, sy>> \in array.px}]

\* Lines 159-172: the array whose positive pixels are the region.
layer_array(layer_num, img_width, img_height) ==
    LET layer_mask == layer_masks[layer_num]
    IN  IF ~is_hollow(layer_num) /\ layer_mask.kind = "list"
        THEN [kind |-> "array", w |-> img_width, h |-> img_height,
              px |-> fillPoly(layer_mask.contour, img_width, img_height)]
        ELSE layer_mask

\* Line 178.
shape_differs(layer_num, img_width, img_height) ==
    /\ layer_masks[layer_num] # None
    /\ LET a == layer_array(layer_num, img_width, img_height)
       IN  <<a.h, a.w>> # <<img_height, img_width>>

\* What the resize of lines 181-201 can do: return the resized array, raise
\* inside the inner try, or fail at the import (outside the inner try).
ResizeOutcomes == {"resized", "raises", "import fails"}

\* Lines 177-201: the array line 204 looks at.
examined_array(layer_num, img_width, img_height, rz) ==
    LET a == layer_array(layer_num, img_width, img_height)
    IN  IF shape_differs(layer_num, img_width, img_height) /\ rz = "resized"
        THEN resize(a, img_width, img_height)
        ELSE a

\* The bounds and the valid pixels as the mask gives them, with no fallback
\* for a mask without positive pixels.
layer_region_without_fallback(layer_num, img_width, img_height, rz) ==
    LET where == IF layer_masks[layer_num] = None THEN {}
                 ELSE examined_array(layer_num, img_width, img_height, rz).px
    IN  IF where = {}
        THEN [min_x |-> 0, max_x |-> img_width - 1, min_y |-> 0,
              max_y |-> img_height - 1, valid_pixel_count |-> 0, where |-> {}]
        ELSE [min_y |-> SetMin({p[2] : p \in where}),
              max_y |-> SetMax({p[2] : p \in where}),
              min_x |-> SetMin({p[1] : p \in where}),
              max_x |-> SetMax({p[1] : p \in where}),
              valid_pixel_count |-> Cardinality(where), where |-> where]

\* Lines 143-241: the bounds and the valid pixels of the chosen layer.
layer_region(layer_num, img_width, img_height, rz) ==
    LET hollow == is_hollow(layer_num)
        whole == [min_x |-> 0, max_x |-> img_width - 1,
                  min_y |-> 0, max_y |-> img_height - 1]
        differs == shape_differs(layer_num, img_width, img_height)
    IN  IF layer_masks[layer_num] = None
        THEN whole @@ [valid_pixel_count |-> 0, where |-> {}]
        ELSE IF differs /\ rz = "import fails"
        THEN whole @@ [valid_pixel_count |->
                          IF hollow THEN 0 ELSE img_height * img_width,
                       where |-> {}]
        ELSE LET where == examined_array(layer_num, img_width, img_height, rz).px
                 valid_pixel_count == Cardinality(where)
                 solid_layer_set == differs /\ rz = "raises" /\ ~hollow
             IN  IF valid_pixel_count > 0 /\ ~solid_layer_set
                 THEN [min_y |-> SetMin({p[2] : p \in where}),
                       max_y |-> SetMax({p[2] : p \in where}),
                       min_x |-> SetMin({p[1] : p \in where}),
                       max_x |-> SetMax({p[1] : p \in where}),
                       valid_pixel_count |-> valid_pixel_count,
                       where |-> where]
                 ELSE IF valid_pixel_count = 0 /\ ~hollow
                 THEN whole @@ [valid_pixel_count |-> img_height * img_width,
                                where |-> where]
                 ELSE whole @@ [valid_pixel_count |-> valid_pixel_count,
                                where |-> where]

\* The length scaled by half the percentage.
scaled_by_half(length, percent) == (length * percent) \div 200

\* Line 245: int(h * scale) with scale = percent / 100.0.
scaled(length, percent) == (length * percent) \div 100

\* Every region sampled the way lines 269-296 sample a solid one: from the
\* bounds, whatever the mask.
placements_from_bounds(name, percent, layer_num, region) ==
    LET new_h == max(MinSpriteSize, scaled(DefectShape(name).h, percent))
        new_w == max(MinSpriteSize, scaled(DefectShape(name).w, percent))
    IN  {[branch |-> IF is_hollow(layer_num) /\ layer_masks[layer_num] # None
                     THEN "hollow pixel" ELSE "solid midpoint",
          new_h |-> new_h, new_w |-> new_w, center_y |-> y, center_x |-> x] :
            x \in region.min_x .. region.max_x, y \in region.min_y .. region.max_y}

\* The fallback centre of a hollow layer taken at the corner of the bounds
\* (the midpoint's "+ max" dropped); every other region sampled from the
\* bounds.
placements_at_corner(name, percent, layer_num, region) ==
    IF is_hollow(layer_num) /\ layer_masks[layer_num] # None
       /\ region.valid_pixel_count = 0
    THEN {[branch |-> "hollow midpoint",
           new_h |-> scaled(DefectShape(name).h, percent),
           new_w |-> scaled(DefectShape(name).w, percent),
           center_y |-> region.min_y \div 2, center_x |-> region.min_x \div 2]}
    ELSE placements_from_bounds(name, percent, layer_num, region)

\* The offsets of lines 285-286 that are explored (with the end points of
\* the range, see randint).
Offsets == {0, 1, 2, 3, 350}

\* Lines 248-296: the sprite size used for sampling and the centres that can
\* be drawn.
placements(name, percent, layer_num, region) ==
    LET h0 == scaled(DefectShape(name).h, percent)
        w0 == scaled(DefectShape(name).w, percent)
        mid_y == (region.min_y + region.max_y) \div 2
        mid_x == (region.min_x + region.max_x) \div 2
    IN  IF is_hollow(layer_num) /\ layer_masks[layer_num] # None
        THEN IF region.valid_pixel_count > 0
             THEN {[branch |-> "hollow pixel",
                    new_h |-> max(MinSpriteSize, h0), new_w |-> max(MinSpriteSize, w0),
                    center_y |-> p[2], center_x |-> p[1]] : p \in region.where}
             ELSE {[branch |-> "hollow midpoint", new_h |-> h0, new_w |-> w0,
                    center_y |-> mid_y, center_x |-> mid_x]}
        ELSE LET layer_height == max(1, region.max_y - region.min_y + 1)
                 layer_width == max(1, region.max_x - region.min_x + 1)
                 new_h == max(MinSpriteSize, h0)
                 new_w == max(MinSpriteSize, w0)
                 available_height == max(0, layer_height - new_h)
                 available_width == max(0, layer_width - new_w)
             IN  IF available_height > 0 /\ available_width > 0
                 THEN {[branch |-> "solid offset", new_h |-> new_h, new_w |-> new_w,
                        center_y |-> region.min_y + offset_y + new_h \div 2,
                        center_x |-> region.min_x + offset_x + new_w \div 2] :
                          offset_y \in randint(0, available_height, Offsets),
                          offset_x \in randint(0, available_width, Offsets)}
                 ELSE {[branch |-> "solid midpoint", new_h |-> new_h, new_w |-> new_w,
                        center_y |-> mid_y, center_x |-> mid_x]}

\* Lines 311-315: |cos| and |sin| of the angle, in units of 10^-7.
cos_theta(angle) ==
    IF angle \in {0, 360} THEN 10000000 ELSE IF angle = 45 THEN 7071068 ELSE 0
sin_theta(angle) ==
    IF angle = 90 THEN 10000000 ELSE IF angle = 45 THEN 7071068 ELSE 0

\* The sprite size as it was before the rotation.
unrotated_size(h, w, angle) == [new_width |-> w, new_height |-> h]

\* Lines 305-327: the sprite size after the rotation has grown it.
rotated_size(h, w, angle) ==
    IF angle # 0
    THEN [new_width |-> (h * sin_theta(angle) + w * cos_theta(angle)) \div 10000000,
          new_height |-> (h * cos_theta(angle) + w * sin_theta(angle)) \div 10000000]
    ELSE [new_width |-> w, new_height |-> h]

\* The pixels of resized_defect after cv2.resize and cv2.warpAffine: the
\* sprite's colour, and 0 (colour and alpha) in the corners the rotation
\* leaves empty.
covered(angle, w, h, q) ==
    angle # 45 \/ abs(2 * q[1] + 1 - w) + abs(2 * q[2] + 1 - h) <= max(w, h)
sprite_colour(name, angle, w, h, q) ==
    IF covered(angle, w, h, q) THEN DefectShape(name).colour ELSE 0
sprite_alpha(name, angle, w, h, q) ==
    IF covered(angle, w, h, q) THEN Opaque ELSE 0

\* defect_roi[q] and mask_roi[q]: a slice is a window (x0, y0, w, h) onto the
\* transformed sprite.
colour_at(roi, q) ==
    sprite_colour(roi.name, roi.angle, roi.of_w, roi.of_h, <<q[1] + roi.x0, q[2] + roi.y0>>)
alpha_at(roi, q) ==
    sprite_alpha(roi.name, roi.angle, roi.of_w, roi.of_h, <<q[1] + roi.x0, q[2] + roi.y0>>)

\* Python's a[lo:hi] on an axis of n entries: where it starts and how many
\* entries it takes.
slice_start(lo, n) == IF lo < 0 THEN max(lo + n, 0) ELSE min(lo, n)
slice_len(lo, hi, n) == max(0, slice_start(hi, n) - slice_start(lo, n))

\* The target rectangle cut at the canvas's far edges only.
clip_far_edges(top_y, left_x, bottom_y, right_x, img_height, img_width) ==
    [valid_top_y |-> top_y, valid_left_x |-> left_x,
     valid_bottom_y |-> min(img_height, bottom_y),
     valid_right_x |-> min(img_width, right_x)]

\* Lines 365-368: the target rectangle cut to the canvas.
clip(top_y, left_x, bottom_y, right_x, img_height, img_width) ==
    [valid_top_y |-> max(0, top_y), valid_left_x |-> max(0, left_x),
     valid_bottom_y |-> min(img_height, bottom_y),
     valid_right_x |-> min(img_width, right_x)]

\* The rectangle of lines 331-334 kept as it is.
record_rect_unclipped(v, top_y, left_x, bottom_y, right_x) ==
    [left |-> left_x, top |-> top_y, right |-> right_x, bottom |-> bottom_y]

\* Lines 401 and 415: the rectangle kept for the annotations.
record_rect(v, top_y, left_x, bottom_y, right_x) ==
    [left |-> v.valid_left_x, top |-> v.valid_top_y,
     right |-> v.valid_right_x, bottom |-> v.valid_bottom_y]

\* Lines 392-393: the value one canvas pixel gets from the canvas value, the
\* sprite value and the sprite's alpha; astype(np.uint8) truncates.
blended(dst, src, mask) == (dst * (Opaque - mask) + src * mask) \div Opaque

\* The sprite value mixed in at half strength.
half_blended(dst, src) == (dst + src) \div 2

\* Line 407: without an alpha channel the sprite value is written.
overwritten(dst, src) == src

\* Lines 398 and 412.
defect_type(info) ==
    IF info.defect_type = NoKey THEN "default_defect" ELSE info.defect_type

\* Lines 299-422 for one sampled scale, alpha, angle, layer and centre c:
\* the locals at the end of the pass (inst), the canvas and the record list.
transfer(image, list, name, percent, alpha, angle, layer_num, rz, region, c) ==
    LET info == defect_info(name)
        img_height == image.h
        img_width == image.w
        resizable == c.new_w >= 1 /\ c.new_h >= 1
        size == rotated_size(c.new_h, c.new_w, angle)
        new_h == size.new_height
        new_w == size.new_width
        top_y == c.center_y - new_h \div 2
        left_x == c.center_x - new_w \div 2
        bottom_y == top_y + new_h
        right_x == left_x + new_w
        has_mask == DefectShape(name).alpha
        v == clip(top_y, left_x, bottom_y, right_x, img_height, img_width)
        defect_top == v.valid_top_y - top_y
        defect_left == v.valid_left_x - left_x
        defect_bottom == defect_top + (v.valid_bottom_y - v.valid_top_y)
        defect_right == defect_left + (v.valid_right_x - v.valid_left_x)
        overlaps == v.valid_bottom_y > v.valid_top_y /\ v.valid_right_x > v.valid_left_x
        \* result_image[top:bottom, left:right] and resized_defect[...]
        roi_y0 == slice_start(v.valid_top_y, img_height)
        roi_x0 == slice_start(v.valid_left_x, img_width)
        roi_h == slice_len(v.valid_top_y, v.valid_bottom_y, img_height)
        roi_w == slice_len(v.valid_left_x, v.valid_right_x, img_width)
        sub_y0 == slice_start(defect_top, new_h)
        sub_x0 == slice_start(defect_left, new_w)
        sub_h == slice_len(defect_top, defect_bottom, new_h)
        sub_w == slice_len(defect_left, defect_right, new_w)
        \* the slices are views of resized_defect and of its alpha channel
        defect_roi == [w |-> sub_w, h |-> sub_h, x0 |-> sub_x0, y0 |-> sub_y0,
                       name |-> name, angle |-> angle, of_w |-> new_w, of_h |-> new_h]
        mask_roi == IF has_mask THEN defect_roi ELSE None
        outcome ==
            IF ~resizable THEN "error"
            ELSE IF ~overlaps THEN "outside"
            ELSE IF <<sub_h, sub_w>> # <<roi_h, roi_w>> THEN "error"
            ELSE IF has_mask THEN "blended" ELSE "overwritten"
        written == outcome \in {"blended", "overwritten"}
        in_roi(p) == /\ roi_x0 <= p[1] /\ p[1] < roi_x0 + roi_w
                     /\ roi_y0 <= p[2] /\ p[2] < roi_y0 + roi_h
        local(p) == <<p[1] - roi_x0, p[2] - roi_y0>>
    IN  [inst |->
            [outcome |-> outcome, defect |-> name, has_mask |-> has_mask,
             percent |-> percent, alpha |-> alpha, draw_alpha |-> max(50, alpha),
             angle |-> angle, layer_num |-> layer_num, rz |-> rz,
             hollow |-> is_hollow(layer_num),
             min_x |-> region.min_x, max_x |-> region.max_x,
             min_y |-> region.min_y, max_y |-> region.max_y,
             valid_pixel_count |-> region.valid_pixel_count,
             branch |-> c.branch, scaled_h |-> c.new_h, scaled_w |-> c.new_w,
             center_x |-> c.center_x, center_y |-> c.center_y,
             new_h |-> new_h, new_w |-> new_w,
             top_y |-> top_y, left_x |-> left_x,
             bottom_y |-> bottom_y, right_x |-> right_x,
             defect_top |-> defect_top, defect_left |-> defect_left,
             before |-> image],
         image |->
            IF written
            THEN [image EXCEPT !.px =
                    [p \in DOMAIN image.px |->
                        IF in_roi(p)
                        THEN IF has_mask
                             THEN blended(image.px[p], colour_at(defect_roi, local(p)),
                                          alpha_at(mask_roi, local(p)))
                             ELSE overwritten(image.px[p], colour_at(defect_roi, local(p)))
                        ELSE image.px[p]]]
            ELSE image,
         list |->
            IF written
            THEN Append(list,
                        [name |-> defect_type(info),
                         rect |-> record_rect(v, top_y, left_x, bottom_y, right_x),
                         defect_roi |-> defect_roi,
                         mask_roi |-> mask_roi])
            ELSE list]

\* Lines 129-134.
layer_choices ==
    IF chk_random_layer /\ selected_layers # <<>>
    THEN {selected_layers[j] : j \in 1 .. Len(selected_layers)}
    ELSE {selected_layers[1]}

\* Every range can be sampled, whether or not the sprite decodes.
Loadable_unchecked(name) ==
    LET info == defect_info(name)
    IN  /\ info.scale_min <= info.scale_max
        /\ info.alpha_min <= info.alpha_max
        /\ info.angle_min <= info.angle_max

\* The sprite decodes and every range can be sampled (lines 108-126).
Loadable(name) ==
    LET info == defect_info(name)
    IN  /\ name \notin unreadable
        /\ info.scale_min <= info.scale_max
        /\ info.alpha_min <= info.alpha_max
        /\ info.angle_min <= info.angle_max

\* Lines 106-420: one pass of the per-defect loop that runs to its end.
TransferDefect ==
    /\ pc = "defect"
    /\ k <= Len(defects_to_transfer)
    /\ Loadable(defects_to_transfer[k])
    /\ LET name == defects_to_transfer[k]
           info == defect_info(name)
           img_width == result_image.w
           img_height == result_image.h
       IN  \E percent \in randint(info.scale_min, info.scale_max, Percents),
              alpha \in randint(info.alpha_min, info.alpha_max, Percents),
              angle \in randint(info.angle_min, info.angle_max, Degrees),
              layer_num \in layer_choices :
             \E rz \in IF shape_differs(layer_num, img_width, img_height)
                       THEN ResizeOutcomes ELSE {"same shape"} :
               LET region == layer_region(layer_num, img_width, img_height, rz)
               IN  \E c \in placements(name, percent, layer_num, region) :
                     LET t == transfer(result_image, defect_info_list, name, percent,
                                       alpha, angle, layer_num, rz, region, c)
                     IN  /\ inst' = t.inst
                         /\ result_image' = t.image
                         /\ defect_info_list' = t.list
    /\ k' = k + 1
    /\ UNCHANGED <<args, pc, i, defects_to_transfer, files, output, messages>>

\* The failure of one instance handled as the handler of line 592 would: the
\* batch ends with the error box.
TransferRaises_to_outer_handler ==
    /\ pc = "defect"
    /\ k <= Len(defects_to_transfer)
    /\ Loadable(defects_to_transfer[k])
    /\ inst' = [outcome |-> "error", defect |-> defects_to_transfer[k]]
    /\ messages' = Append(messages, "critical: batch transfer failed")
    /\ pc' = "done"
    /\ k' = k + 1
    /\ UNCHANGED <<args, i, defects_to_transfer, result_image,
                   defect_info_list, files, output>>

\* Lines 299-302, 421-422: cv2.resize, cv2.warpAffine or the blend raises;
\* the handler of line 421 logs it and the loop goes on.
TransferRaises ==
    /\ pc = "defect"
    /\ k <= Len(defects_to_transfer)
    /\ Loadable(defects_to_transfer[k])
    /\ inst' = [outcome |-> "error", defect |-> defects_to_transfer[k]]
    /\ k' = k + 1
    /\ UNCHANGED <<args, pc, i, defects_to_transfer, result_image,
                   defect_info_list, files, output, messages>>

\* Lines 108-110, 122-126 and 592-593: the sprite does not decode, or
\* random.randint is given an empty range; the batch ends with an error box.
TransferAborts ==
    /\ pc = "defect"
    /\ k <= Len(defects_to_transfer)
    /\ ~Loadable(defects_to_transfer[k])
    /\ messages' = Append(messages, "critical: batch transfer failed")
    /\ pc' = "done"
    /\ UNCHANGED <<args, i, defects_to_transfer, k, result_image,
                   defect_info_list, inst, files, output>>

\* --------------------------------------- generate_batch: writing one image
\* What the clock can read when an image is written: the second and the
\* millisecond of line 426.  Two images of a run can meet the same reading.
Timestamps == {"20261103_120000_000", "20261103_120000_001"}

\* The base name without the image number.
output_path_without_index(timestamp, n) == [timestamp |-> timestamp, index |-> 0]

\* Line 427: the base name "defect_result_{timestamp}_{i+1}" of an output
\* image.
output_path(timestamp, n) == [timestamp |-> timestamp, index |-> n]

\* The three files written under one base name (lines 428, 513 and 586).
image_files(base) ==
    <<[kind |-> "bmp", base |-> base], [kind |-> "json", base |-> base],
      [kind |-> "xml", base |-> base]>>

\* Lines 453-470: the pixels of the slice that count as sprite: positive alpha
\* when there is a mask, a value above 1 otherwise.
silhouette(record) ==
    LET roi == record.defect_roi
    IN  {q \in Pixels(roi.w, roi.h) :
            IF record.mask_roi # None
            THEN alpha_at(record.mask_roi, q) > 0
            ELSE colour_at(roi, q) > 1}

\* cv2.findContours(..., RETR_EXTERNAL, CHAIN_APPROX_NONE) of a connected
\* silhouette: its border pixels, those with a 4-neighbour outside it.
findContours(shape) ==
    {q \in shape :
        \E d \in {<<1, 0>>, <<-1, 0>>, <<0, 1>>, <<0, -1>>} :
            <<q[1] + d[1], q[2] + d[2]>> \notin shape}

\* Lines 472-494: the contour in canvas coordinates, or the corners of the
\* rectangle when there is none.
shape_points(record) ==
    LET rect == record.rect
        contour == findContours(silhouette(record))
    IN  IF contour # {}
        THEN {<<q[1] + rect.left, q[2] + rect.top>> : q \in contour}
        ELSE {<<rect.left, rect.top>>, <<rect.right, rect.top>>,
              <<rect.right, rect.bottom>>, <<rect.left, rect.bottom>>}

\* Lines 434-508: the polygon document.
json_data(image, list) ==
    [imageHeight |-> image.h, imageWidth |-> image.w,
     shapes |-> [j \in 1 .. Len(list) |->
                    [label |-> list[j].name, points |-> shape_points(list[j]),
                     shape_type |-> "polygon"]]]

\* The box written as corner, width and height.
bndbox_as_size(rect) ==
    [xmin |-> rect.left, ymin |-> rect.top,
     xmax |-> rect.right - rect.left, ymax |-> rect.bottom - rect.top]

\* Lines 574-582.
bndbox(rect) ==
    [xmin |-> rect.left, ymin |-> rect.top, xmax |-> rect.right, ymax |-> rect.bottom]

\* Lines 521-582: the bounding-box document.
xml_annotation(image, list) ==
    [width |-> image.w, height |-> image.h, depth |-> 3,
     objects |-> [j \in 1 .. Len(list) |->
                     [name |-> list[j].name, bndbox |-> bndbox(list[j].rect)]]]

\* Lines 424-588: the per-defect loop is over; the raster, the polygon
\* document and the bounding-box document of image i + 1 are written.
SaveImage ==
    /\ pc = "defect"
    /\ k > Len(defects_to_transfer)
    /\ \E timestamp \in Timestamps :
          files' = files \o image_files(output_path(timestamp, i + 1))
    /\ output' = [image |-> result_image,
                  json |-> json_data(result_image, defect_info_list),
                  xml |-> xml_annotation(result_image, defect_info_list)]
    /\ i' = i + 1
    /\ pc' = "image"
    /\ UNCHANGED <<args, defects_to_transfer, k, result_image, defect_info_list,
                   inst, messages>>

Next ==
    \/ StartBatch
    \/ BeginImage
    \/ TransferDefect
    \/ TransferRaises
    \/ TransferAborts
    \/ SaveImage
    \/ Finish

Spec == Init /\ [][Next]_vars

\* ------------------------------------- generate_batch on a large canvas
\* One call of generate_batch: the target is "canvas.bmp"; layer 1 was saved
\* from one contour drawn around the whole canvas; "block.bmp" is the one
\* defect, with scale 100..100, alpha 100..100 and angle 0..0; one image is
\* asked for.  The run in which no library call raises is followed.
WholeCanvas == [x1 |-> 0, y1 |-> 0, x2 |-> CanvasWidth - 1, y2 |-> CanvasHeight - 1]

ScenarioInit ==
    /\ target_image_path = "canvas.bmp"
    /\ save_dir = "out"
    /\ generate_count = 1
    /\ selected_defect_paths = <<"block.bmp">>
    /\ defect_selection_status = ("block.bmp" :> TRUE)
    /\ preview_defects = ("block.bmp" :> [default_info EXCEPT !.angle_max = 0])
    /\ layer_masks = <<solid_mask(WholeCanvas), None, None>>
    /\ layer_checkboxes = [l \in 1 .. DefaultLayerCount |-> TRUE]
    /\ hollow_layers = (1 :> FALSE)
    /\ chk_random_layer = FALSE
    /\ chk_random_defect = FALSE
    /\ spin_max_defects = DefaultMaxDefects
    /\ unreadable = {}
    /\ current_selected_defect = ""
    /\ last_clicked_index = -1
    /\ config_files = <<>>
    /\ layer_contours = [l \in 1 .. DefaultLayerCount |-> <<>>]
    /\ contour_points = <<>>
    /\ current_layer = 1
    /\ defect_transfer = None
    /\ pc = "idle"
    /\ i = 0
    /\ defects_to_transfer = <<>>
    /\ k = 0
    /\ result_image = None
    /\ defect_info_list = <<>>
    /\ inst = None
    /\ files = <<>>
    /\ output = None
    /\ messages = <<>>

ScenarioNext ==
    \/ StartBatch
    \/ BeginImage
    \/ TransferDefect
    \/ SaveImage
    \/ Finish

ScenarioSpec == ScenarioInit /\ [][ScenarioNext]_vars

\* ======================================================= the defect manager
\* What generate_batch reads or writes and the manager's handlers leave alone.
batch_state == <<target_image_path, save_dir, generate_count,
                 layer_masks, layer_checkboxes, hollow_layers,
                 chk_random_layer, chk_random_defect, spin_max_defects, unreadable,
                 layer_contours, contour_points, current_layer, defect_transfer,
                 locals, files, output, messages>>

\* The attribute selected_defect_paths after delattr (line 263).
Deleted == <<"<no attribute>">>

\* The file lists the file dialog can return; <<>> when it is cancelled.
FileChoices == {<<>>, <<"a.png">>, <<"a.png", "b.bmp">>}

\* The JSON files a session can find in defect_configs/: none; one written by
\* save_defect_scale_settings in an earlier session; one that holds a single
\* key; one whose ranges were written by hand.
DiskStates ==
    {<<>>,
     "a.png" :> [scale_min |-> 50, scale_max |-> 150, alpha_min |-> 100,
                 alpha_max |-> 100, angle_min |-> 0, angle_max |-> 45,
                 defect_type |-> "scratch"],
     "a.png" :> [scale_min |-> 150],
     "b.bmp" :> [angle_min |-> 90, angle_max |-> 45, defect_type |-> ""]}

\* The rows of defect_list_view: the names of the chosen files.
listed == IF selected_defect_paths = Deleted THEN <<>> ELSE selected_defect_paths

\* _load_defect_config (lines 528-559): every key of the file replaces the
\* entry's value, as it is.
_load_defect_config(entries, defect_name) ==
    IF defect_name \in DOMAIN config_files
    THEN LET config == config_files[defect_name]
             old == entries[defect_name]
             keys == DOMAIN old \cup DOMAIN config
         IN  (defect_name :>
                 [key \in keys |-> IF key \in DOMAIN config THEN config[key] ELSE old[key]])
             @@ entries
    ELSE entries

\* Lines 232-246 for the chosen files in turn: a new name gets the default
\* entry (the defaults carry no defect_type), then its file is loaded.
RECURSIVE listed_entries(_, _)
listed_entries(entries, file_paths) ==
    IF file_paths = <<>> THEN entries
    ELSE LET defect_name == Head(file_paths)
             with_default == IF defect_name \in DOMAIN entries THEN entries
                             ELSE (defect_name :> default_info) @@ entries
         IN  listed_entries(_load_defect_config(with_default, defect_name),
                            Tail(file_paths))

\* select_defect (lines 189-268).
select_defect ==
    /\ \E file_paths \in FileChoices :
          IF file_paths # <<>>
          THEN /\ selected_defect_paths' = file_paths
               /\ defect_selection_status' =
                     [name \in DOMAIN defect_selection_status
                               \cup {file_paths[j] : j \in 1 .. Len(file_paths)} |->
                         IF name \in DOMAIN defect_selection_status
                         THEN defect_selection_status[name] ELSE TRUE]
               /\ preview_defects' = listed_entries(preview_defects, file_paths)
               /\ UNCHANGED current_selected_defect
          ELSE /\ selected_defect_paths' = Deleted
               /\ current_selected_defect' = ""
               /\ UNCHANGED <<defect_selection_status, preview_defects>>
    /\ UNCHANGED <<last_clicked_index, config_files, batch_state>>

\* on_defect_item_clicked (lines 287-327): a click on row `row`, on its check
\* box (which toggles it) or beside it, with Shift, with Ctrl or plain.  When
\* the row clicked last is no longer in the list, item() returns None and
\* line 301 raises before anything but the clicked box has changed.
on_defect_item_clicked ==
    /\ \E row \in 1 .. Len(listed), toggles \in BOOLEAN,
          modifier \in {"none", "shift", "ctrl"} :
          LET name == listed[row]
              checked == IF toggles THEN ~defect_selection_status[name]
                         ELSE defect_selection_status[name]
              current_index == row - 1
              shifted == modifier = "shift" /\ last_clicked_index # -1
              raises == shifted /\ last_clicked_index >= Len(listed)
              ranged == shifted /\ ~raises
              target_state ==
                  IF last_clicked_index = current_index THEN checked
                  ELSE defect_selection_status[listed[last_clicked_index + 1]]
              in_range(r) ==
                  /\ min(last_clicked_index, current_index) <= r - 1
                  /\ r - 1 <= max(last_clicked_index, current_index)
          IN  /\ defect_selection_status' =
                    [n \in DOMAIN defect_selection_status |->
                        IF ranged /\ \E r \in 1 .. Len(listed) : listed[r] = n /\ in_range(r)
                        THEN target_state
                        ELSE IF raises THEN defect_selection_status[n]
                        ELSE IF n = name THEN checked
                        ELSE defect_selection_status[n]]
              /\ last_clicked_index' = IF raises THEN last_clicked_index ELSE current_index
              /\ current_selected_defect' =
                    IF modifier = "none" THEN name ELSE current_selected_defect
    /\ UNCHANGED <<selected_defect_paths, preview_defects, config_files, batch_state>>

\* on_defect_list_key_press (lines 270-285) with Ctrl+A: every row ticked.
on_defect_list_key_press ==
    /\ defect_selection_status' =
          [n \in DOMAIN defect_selection_status |->
              IF \E r \in 1 .. Len(listed) : listed[r] = n THEN TRUE
              ELSE defect_selection_status[n]]
    /\ UNCHANGED <<selected_defect_paths, preview_defects, current_selected_defect,
                   last_clicked_index, config_files, batch_state>>

\* on_defect_double_clicked (lines 350-371); it returns at once without a
\* target image.
on_defect_double_clicked ==
    /\ target_image_path # ""
    /\ \E row \in 1 .. Len(listed) :
          current_selected_defect' = listed[row]
    /\ UNCHANGED <<selected_defect_paths, defect_selection_status, preview_defects,
                   last_clicked_index, config_files, batch_state>>

\* What the six number fields and the type field can hold when the save
\* button is pressed; numeric = FALSE is a field int() cannot parse.
FieldTexts ==
    {[numeric |-> TRUE, scale_min |-> 150, scale_max |-> 50, alpha_min |-> 100,
      alpha_max |-> 0, angle_min |-> 90, angle_max |-> 45, defect_type |-> "scratch"],
     [numeric |-> TRUE, scale_min |-> 0, scale_max |-> 600, alpha_min |-> -5,
      alpha_max |-> 200, angle_min |-> 0, angle_max |-> 400, defect_type |-> ""],
     [numeric |-> FALSE, scale_min |-> 0, scale_max |-> 0, alpha_min |-> 0,
      alpha_max |-> 0, angle_min |-> 0, angle_max |-> 0, defect_type |-> ""]}

\* Lines 468-484 for one range: both ends clamped to lo..hi, then the upper
\* end raised to the lower one.
clamped(low, high, lo, hi) ==
    LET a == max(lo, min(low, hi))
        b == max(lo, min(high, hi))
    IN  <<a, IF a > b THEN a ELSE b>>

\* Lines 460-509: the configuration the fields give.
saved_config(text) ==
    LET scale == clamped(text.scale_min, text.scale_max, 1, 500)
        alpha == clamped(text.alpha_min, text.alpha_max, 0, 100)
        angle == clamped(text.angle_min, text.angle_max, 0, 360)
    IN  [scale_min |-> scale[1], scale_max |-> scale[2],
         alpha_min |-> alpha[1], alpha_max |-> alpha[2],
         angle_min |-> angle[1], angle_max |-> angle[2],
         defect_type |-> text.defect_type]

\* save_defect_scale_settings (lines 453-526): the entry of the current
\* defect updated and its JSON file written; nothing without a current
\* defect, with an unparsable field, or without an entry.
save_defect_scale_settings ==
    /\ current_selected_defect # ""
    /\ \E text \in FieldTexts :
          IF text.numeric /\ current_selected_defect \in DOMAIN preview_defects
          THEN LET config == saved_config(text)
                   old == preview_defects[current_selected_defect]
               IN  /\ preview_defects' =
                         [preview_defects EXCEPT ![current_selected_defect] =
                             [key \in DOMAIN old \cup DOMAIN config |->
                                 IF key \in DOMAIN config THEN config[key] ELSE old[key]]]
                   /\ config_files' = (current_selected_defect :> config) @@ config_files
          ELSE UNCHANGED <<preview_defects, config_files>>
    /\ UNCHANGED <<selected_defect_paths, defect_selection_status,
                   current_selected_defect, last_clicked_index, batch_state>>

\* The dialog after construction (DefectManager.__init__, lines 16-42) with a
\* target image chosen, and the defect_configs/ directory as found.
ManagerInit ==
    /\ target_image_path = "target.bmp"
    /\ save_dir = ""
    /\ generate_count = 1
    /\ selected_defect_paths = <<>>
    /\ defect_selection_status = <<>>
    /\ preview_defects = <<>>
    /\ layer_masks = _update_layer_checkboxes(DefaultLayerCount).layer_masks
    /\ layer_checkboxes = _update_layer_checkboxes(DefaultLayerCount).layer_checkboxes
    /\ hollow_layers = <<>>
    /\ chk_random_layer = FALSE
    /\ chk_random_defect = FALSE
    /\ spin_max_defects = DefaultMaxDefects
    /\ unreadable = {}
    /\ current_selected_defect = ""
    /\ last_clicked_index = -1
    /\ config_files \in DiskStates
    /\ layer_contours = [l \in 1 .. DefaultLayerCount |-> <<>>]
    /\ contour_points = <<>>
    /\ current_layer = 1
    /\ defect_transfer = None
    /\ pc = "idle"
    /\ i = 0
    /\ defects_to_transfer = <<>>
    /\ k = 0
    /\ result_image = None
    /\ defect_info_list = <<>>
    /\ inst = None
    /\ files = <<>>
    /\ output = None
    /\ messages = <<>>

ManagerNext ==
    \/ select_defect
    \/ on_defect_item_clicked
    \/ on_defect_list_key_press
    \/ on_defect_double_clicked
    \/ save_defect_scale_settings

ManagerSpec == ManagerInit /\ [][ManagerNext]_vars

\* ========================================================= the layer editor
\* What the editor's handlers leave alone.
editor_rest == <<save_dir, generate_count, selected_defect_paths,
                 defect_selection_status, preview_defects,
                 chk_random_layer, chk_random_defect, spin_max_defects, unreadable,
                 current_selected_defect, last_clicked_index, config_files,
                 defect_transfer, locals, files, output>>

editor_frame == <<layer_checkboxes, editor_rest>>

\* The most contours put aside for one layer that are explored.
MaxContours == 2

\* The rectangles drawn on the viewer: an outer one, one inside it, and one
\* that overlaps the second and reaches outside the first.
DrawnOuter == [x1 |-> 2, y1 |-> 2, x2 |-> 7, y2 |-> 7]
DrawnInside == [x1 |-> 3, y1 |-> 3, x2 |-> 5, y2 |-> 5]
DrawnAcross == [x1 |-> 5, y1 |-> 5, x2 |-> 9, y2 |-> 9]
Drawable == {DrawnOuter, DrawnInside, DrawnAcross}

\* ImageViewer.mouseReleaseEvent with the rectangle tool (lines 755-770): the
\* viewer's contour becomes the rectangle dragged.
mouseReleaseEvent ==
    /\ contour_points' \in Drawable
    /\ messages' = <<>>
    /\ UNCHANGED <<target_image_path, layer_masks, hollow_layers, layer_contours,
                   current_layer, editor_frame>>

\* add_inner_contour (lines 302-328): the viewer's contour is put aside and
\* the viewer cleared; a warning and nothing else without a contour.
add_inner_contour ==
    /\ Len(layer_contours[current_layer]) < MaxContours
    /\ IF contour_points = <<>>
       THEN /\ messages' = <<"warning: draw the outer contour first">>
            /\ UNCHANGED <<layer_contours, contour_points>>
       ELSE /\ layer_contours' =
                  [layer_contours EXCEPT ![current_layer] = Append(@, contour_points)]
            /\ contour_points' = <<>>
            /\ messages' = <<>>
    /\ UNCHANGED <<target_image_path, layer_masks, hollow_layers, current_layer,
                   editor_frame>>

\* reset_current_drawing (lines 287-300).
reset_current_drawing ==
    /\ contour_points' = <<>>
    /\ messages' = <<>>
    /\ layer_masks' = [layer_masks EXCEPT ![current_layer] = None]
    /\ layer_contours' = [layer_contours EXCEPT ![current_layer] = <<>>]
    /\ UNCHANGED <<target_image_path, hollow_layers, current_layer, editor_frame>>

\* BaseBatchTransferComponent.calculate_area of a rectangle contour (base.py
\* lines 31-50): the shoelace formula over its corners.
calculate_area(contour) == abs(contour.x2 - contour.x1) * abs(contour.y2 - contour.y1)

\* The box save_current_layer shows after a save (line 388).
saved(layer, area) ==
    "information: layer " \o ToString(layer) \o " saved, area " \o ToString(area)

\* save_current_layer (lines 330-399): with one contour the vertex list is
\* stored and the layer is solid; with several, and a target image that
\* decodes, the raster is stored and the layer is hollow; the contours put
\* aside and the viewer are cleared either way, and the "saved" box is shown
\* either way.  messages holds the boxes shown by the handler that ran last.
save_current_layer ==
    /\ IF contour_points = <<>>
       THEN /\ messages' = <<"warning: draw a contour first">>
            /\ UNCHANGED <<layer_masks, hollow_layers, layer_contours, contour_points>>
       ELSE LET contours == Append(layer_contours[current_layer], contour_points)
                target_img == imread_target(target_image_path)
            IN  /\ IF Len(contours) = 1
                   THEN /\ layer_masks' = [layer_masks EXCEPT ![current_layer] =
                                              solid_mask(contour_points)]
                        /\ hollow_layers' = (current_layer :> FALSE) @@ hollow_layers
                        /\ messages' = <<saved(current_layer,
                                                calculate_area(contour_points))>>
                   ELSE IF target_image_path # "" /\ target_img # None
                   THEN /\ layer_masks' = [layer_masks EXCEPT ![current_layer] =
                                              hollow_mask(contours, target_img.w, target_img.h)]
                        /\ hollow_layers' = (current_layer :> TRUE) @@ hollow_layers
                        /\ messages' = <<saved(current_layer,
                                 Cardinality(hollow_mask(contours, target_img.w,
                                                         target_img.h).px))>>
                   ELSE /\ messages' = <<saved(current_layer, 0)>>
                        /\ UNCHANGED <<layer_masks, hollow_layers>>
                /\ layer_contours' = [layer_contours EXCEPT ![current_layer] = <<>>]
                /\ contour_points' = <<>>
    /\ UNCHANGED <<target_image_path, current_layer, editor_frame>>

\* The editor after construction (LayerEditor.__init__, lines 16-29, and
\* _update_layer_checkboxes(3)) with a target image chosen.
EditorInit ==
    /\ target_image_path \in {"target.bmp", "broken.bmp"}
    /\ save_dir = ""
    /\ generate_count = 1
    /\ selected_defect_paths = <<>>
    /\ defect_selection_status = <<>>
    /\ preview_defects = <<>>
    /\ layer_masks = _update_layer_checkboxes(DefaultLayerCount).layer_masks
    /\ layer_checkboxes = _update_layer_checkboxes(DefaultLayerCount).layer_checkboxes
    /\ hollow_layers = <<>>
    /\ chk_random_layer = FALSE
    /\ chk_random_defect = FALSE
    /\ spin_max_defects = DefaultMaxDefects
    /\ unreadable = {}
    /\ current_selected_defect = ""
    /\ last_clicked_index = -1
    /\ config_files = <<>>
    /\ layer_contours = [l \in 1 .. DefaultLayerCount |-> <<>>]
    /\ contour_points = <<>>
    /\ current_layer = 1
    /\ defect_transfer = None
    /\ pc = "idle"
    /\ i = 0
    /\ defects_to_transfer = <<>>
    /\ k = 0
    /\ result_image = None
    /\ defect_info_list = <<>>
    /\ inst = None
    /\ files = <<>>
    /\ output = None
    /\ messages = <<>>

EditorNext ==
    \/ mouseReleaseEvent
    \/ add_inner_contour
    \/ reset_current_drawing
    \/ save_current_layer

EditorSpec == EditorInit /\ [][EditorNext]_vars

\* C25: the hollow flag of a layer is true exactly when its stored mask is a
\* raster; a layer with no stored region or with a vertex list is not
\* flagged hollow.
C25_FlagAgreesWithMask ==
    \A l \in DOMAIN layer_masks :
        is_hollow(l) <=> (layer_masks[l] # None /\ layer_masks[l].kind = "array")

\* The region the pending contours and the viewer's contour define for the
\* current layer, None when it cannot be built: the vertex list for one
\* contour, the raster on the decoded target for several.
PendingRegion ==
    LET contours == Append(layer_contours[current_layer], contour_points)
        canvas == imread_target(target_image_path)
    IN  IF contour_points = <<>> THEN None
        ELSE IF Len(contours) = 1 THEN solid_mask(contour_points)
        ELSE IF canvas = None THEN None
        ELSE hollow_mask(contours, canvas.w, canvas.h)

ReportsSaved == \E text \in {messages'[n] : n \in DOMAIN messages'} :
                    \E area \in 0 .. TargetWidth * TargetHeight :
                        text = saved(current_layer, area)

SaveStep == save_current_layer /\ current_layer' = current_layer

\* C26: a save that reports success has stored the region of the pending
\* contours and emptied the pending list; a save that cannot store the region
\* reports no success and keeps the pending contours.
C26_SuccessMeansStored ==
    [][SaveStep =>
          IF PendingRegion # None
          THEN ReportsSaved => /\ layer_masks'[current_layer] = PendingRegion
                               /\ layer_contours'[current_layer] = <<>>
          ELSE /\ ~ReportsSaved
               /\ layer_contours'[current_layer] = layer_contours[current_layer]]_vars

\* ===================================================== the transfer dialog
\* The target images the file dialog of select_target_image can return; ""
\* is a cancelled dialog.
TargetChoices == {"", "target.bmp", "old.bmp", "broken.bmp"}

\* The layer counts set on spin_layer_count that are explored (the spin box
\* ranges over 1 .. 10 and starts at DefaultLayerCount).
LayerCounts == 1 .. DefaultLayerCount

\* What on_layer_double_clicked leaves on the viewer (lines 248-277): the
\* viewer is cleared, and the vertex list of a saved layer that is not flagged
\* hollow becomes the viewer's contour again.
shown_contour(layer) ==
    IF /\ layer \in DOMAIN layer_masks
       /\ layer_masks[layer] # None
       /\ ~is_hollow(layer)
       /\ layer_masks[layer].kind = "list"
    THEN layer_masks[layer].contour
    ELSE <<>>

\* LayerEditor.on_layer_double_clicked(layer) (lines 239-277).
on_layer_double_clicked ==
    \E layer \in DOMAIN layer_checkboxes :
        /\ current_layer' = layer
        /\ contour_points' = shown_contour(layer)
        /\ messages' = <<>>
        /\ UNCHANGED <<target_image_path, layer_masks, hollow_layers, layer_contours,
                       layer_checkboxes, editor_rest>>

\* BatchTransferDialog.select_target_image (lines 131-160): a chosen file
\* becomes the target and layer 1 is shown as by a double click; a cancelled
\* dialog clears the target and the viewer.  The saved regions are left as
\* they are.
select_target_image ==
    \E file_path \in TargetChoices :
        /\ target_image_path' = file_path
        /\ messages' = <<>>
        /\ IF file_path # ""
           THEN /\ current_layer' = 1
                /\ contour_points' = shown_contour(1)
           ELSE /\ contour_points' = <<>>
                /\ UNCHANGED current_layer
        /\ UNCHANGED <<layer_masks, hollow_layers, layer_contours, layer_checkboxes,
                       editor_rest>>

\* spin_layer_count.valueChanged -> _update_layer_checkboxes(count) (lines
\* 53, 206-237): the boxes are rebuilt, all ticked; layers that have no entry
\* get a None mask and an empty contour list; no entry is removed.
on_layer_count_changed ==
    \E count \in LayerCounts :
        /\ count # Len(layer_checkboxes)
        /\ layer_checkboxes' = [l \in 1 .. count |-> TRUE]
        /\ messages' = <<>>
        /\ layer_masks' = [l \in DOMAIN layer_masks \cup (1 .. count) |->
                              IF l \in DOMAIN layer_masks THEN layer_masks[l] ELSE None]
        /\ layer_contours' = [l \in DOMAIN layer_contours \cup (1 .. count) |->
                                 IF l \in DOMAIN layer_contours THEN layer_contours[l]
                                 ELSE <<>>]
        /\ UNCHANGED <<target_image_path, hollow_layers, contour_points, current_layer,
                       editor_rest>>

\* The dialog with regions saved on "target.bmp" (LayerSetups 1, 2 and 7) and
\* layer 1 shown.
DialogInit ==
    /\ target_image_path = "target.bmp"
    /\ save_dir = ""
    /\ generate_count = 1
    /\ selected_defect_paths = <<>>
    /\ defect_selection_status = <<>>
    /\ preview_defects = <<>>
    /\ \E l \in {1, 2, 7} :
          /\ layer_masks = LayerSetups[l].layer_masks
          /\ layer_checkboxes = [n \in 1 .. DefaultLayerCount |-> TRUE]
          /\ hollow_layers = LayerSetups[l].hollow_layers
    /\ chk_random_layer = FALSE
    /\ chk_random_defect = FALSE
    /\ spin_max_defects = DefaultMaxDefects
    /\ unreadable = {}
    /\ current_selected_defect = ""
    /\ last_clicked_index = -1
    /\ config_files = <<>>
    /\ layer_contours = [l \in 1 .. DefaultLayerCount |-> <<>>]
    /\ contour_points = shown_contour(1)
    /\ current_layer = 1
    /\ defect_transfer = None
    /\ pc = "idle"
    /\ i = 0
    /\ defects_to_transfer = <<>>
    /\ k = 0
    /\ result_image = None
    /\ defect_info_list = <<>>
    /\ inst = None
    /\ files = <<>>
    /\ output = None
    /\ messages = <<>>

DialogNext ==
    \/ select_target_image
    \/ on_layer_double_clicked
    \/ on_layer_count_changed
    \/ reset_current_drawing

DialogSpec == DialogInit /\ [][DialogNext]_vars

\* C21: every layer flagged hollow whose stored mask is a raster has the
\* width and the height of the canvas the current target image decodes to.
C21_HollowRasterIsCanvasSized ==
    LET canvas == imread_target(target_image_path)
    IN  canvas # None =>
            \A l \in DOMAIN layer_masks :
                (is_hollow(l) /\ layer_masks[l] # None /\ layer_masks[l].kind = "array")
                    => (layer_masks[l].w = canvas.w /\ layer_masks[l].h = canvas.h)

\* C22: when the layer count is lowered from m to n, the layers n+1 .. m lose
\* their stored mask and their hollow flag.
C22_LoweredCountDropsRegions ==
    [][Len(layer_checkboxes') < Len(layer_checkboxes) =>
          \A l \in (Len(layer_checkboxes') + 1) .. Len(layer_checkboxes) :
              /\ (l \in DOMAIN layer_masks' => layer_masks'[l] = None)
              /\ l \notin DOMAIN hollow_layers']_vars

\* ================================================= the single-defect tool
\* DefectTransferNew (defect_transfer.py).  defect_transfer holds the object:
\* the sizes of original_image and target_image (None when not loaded),
\* cropped_defect (Missing until _extract_defect has set the attribute),
\* current_position, current_scale (in percent), current_rotation and
\* transferred_defect; result is what the caller got from the last blend,
\* raised the exception the last call ended with ("" for none), and disk the
\* files written, by path.
Missing == [kind |-> "no attribute"]

\* The masks given to set_defect_mask, as the rectangle of their positive
\* pixels on the original image: none at all, no positive pixel, a small
\* rectangle, the whole image.
Masks == {None, [kind |-> "empty"],
          [kind |-> "mask", x1 |-> 1, y1 |-> 1, x2 |-> 2, y2 |-> 2],
          [kind |-> "mask", x1 |-> 0, y1 |-> 0, x2 |-> OldWidth - 1, y2 |-> OldHeight - 1]}

Positions == {<<0, 0>>, <<20, 20>>}
Scales == {5, 100, 150}
Strengths == {100}

shape(image) == [w |-> image.w, h |-> image.h]

\* __init__ (lines 16-25).
TransferInit ==
    /\ target_image_path = ""
    /\ save_dir = ""
    /\ generate_count = 1
    /\ selected_defect_paths = <<>>
    /\ defect_selection_status = <<>>
    /\ preview_defects = <<>>
    /\ layer_masks = _update_layer_checkboxes(DefaultLayerCount).layer_masks
    /\ layer_checkboxes = _update_layer_checkboxes(DefaultLayerCount).layer_checkboxes
    /\ hollow_layers = <<>>
    /\ chk_random_layer = FALSE
    /\ chk_random_defect = FALSE
    /\ spin_max_defects = DefaultMaxDefects
    /\ unreadable = {}
    /\ current_selected_defect = ""
    /\ last_clicked_index = -1
    /\ config_files = <<>>
    /\ layer_contours = [l \in 1 .. DefaultLayerCount |-> <<>>]
    /\ contour_points = <<>>
    /\ current_layer = 1
    /\ defect_transfer =
          [original_image |-> None, target_image |-> None, cropped_defect |-> Missing,
           current_position |-> <<0, 0>>, current_scale |-> 100,
           current_rotation |-> 0, transferred_defect |-> None,
           result |-> None, raised |-> "", disk |-> <<>>]
    /\ pc = "idle"
    /\ i = 0
    /\ defects_to_transfer = <<>>
    /\ k = 0
    /\ result_image = None
    /\ defect_info_list = <<>>
    /\ inst = None
    /\ files = <<>>
    /\ output = None
    /\ messages = <<>>

tool_frame == <<dialog_state, locals, files, output, messages>>

\* load_images (lines 27-45): each image is assigned as cv2.imread returns
\* it; the target is not read when the original does not decode.
load_images ==
    \E original_image_path \in {"old.bmp", "broken.bmp"},
       path \in {"target.bmp", "broken.bmp"} :
        LET original == imread_target(original_image_path)
            target == imread_target(path)
        IN  /\ defect_transfer' =
                  [defect_transfer EXCEPT
                      !.original_image = IF original = None THEN None ELSE shape(original),
                      !.target_image = IF original = None THEN @
                                       ELSE IF target = None THEN None ELSE shape(target),
                      !.raised = ""]
            /\ UNCHANGED tool_frame

\* set_defect_mask and _extract_defect (lines 47-101): the sprite is the
\* bounding box of the mask's positive pixels; the position becomes the one
\* that centres it on the target, which raises when no target is loaded.
set_defect_mask ==
    \E mask \in Masks :
        /\ defect_transfer' =
              IF mask = None
              THEN [defect_transfer EXCEPT !.raised = "ValueError"]
              ELSE IF defect_transfer.original_image = None \/ mask.kind = "empty"
              THEN [defect_transfer EXCEPT !.raised = ""]
              ELSE LET cropped == [w |-> mask.x2 - mask.x1 + 1, h |-> mask.y2 - mask.y1 + 1]
                       target == defect_transfer.target_image
                   IN  IF target = None
                       THEN [defect_transfer EXCEPT !.cropped_defect = cropped,
                                                    !.raised = "AttributeError"]
                       ELSE [defect_transfer EXCEPT
                                !.cropped_defect = cropped,
                                !.current_position = <<(target.w - cropped.w) \div 2,
                                                       (target.h - cropped.h) \div 2>>,
                                !.raised = ""]
        /\ UNCHANGED tool_frame

\* set_position (lines 103-105).
set_position ==
    \E position \in Positions :
        /\ defect_transfer' = [defect_transfer EXCEPT !.current_position = position,
                                                      !.raised = ""]
        /\ UNCHANGED tool_frame

\* set_scale (lines 107-109): max(0.1, min(scale, 5.0)).
set_scale ==
    \E scale \in Scales :
        /\ defect_transfer' = [defect_transfer EXCEPT
                                  !.current_scale = max(10, min(scale, 500)),
                                  !.raised = ""]
        /\ UNCHANGED tool_frame

\* set_rotation (lines 111-113).
set_rotation ==
    \E angle \in {0, 45} :
        /\ defect_transfer' = [defect_transfer EXCEPT !.current_rotation = angle,
                                                      !.raised = ""]
        /\ UNCHANGED tool_frame

\* apply_scale_only (lines 115-140): the size of the scaled sprite; cv2.resize
\* raises for an empty size.
apply_scale_only ==
    LET cropped == defect_transfer.cropped_defect
        percent == defect_transfer.current_scale
    IN  IF percent # 100
        THEN [w |-> (cropped.w * percent) \div 100, h |-> (cropped.h * percent) \div 100]
        ELSE cropped

\* apply_rotation_to_image (lines 142-181): the size after the rotation.
apply_rotation_to_image(image, angle) ==
    IF angle = 0 THEN image
    ELSE [w |-> (image.w * cos_theta(angle) + image.h * sin_theta(angle)) \div 10000000,
          h |-> (image.w * sin_theta(angle) + image.h * cos_theta(angle)) \div 10000000]

\* Lines 213-257 and 282-317: the sprite of the given size blended at the
\* clamped position; None when it does not fit on the target or the
\* transform raised.
blend(sprite, blend_strength, rotated) ==
    LET target == defect_transfer.target_image
        x == max(0, min(defect_transfer.current_position[1], target.w - sprite.w))
        y == max(0, min(defect_transfer.current_position[2], target.h - sprite.h))
    IN  IF sprite.w < 1 \/ sprite.h < 1 THEN None
        ELSE IF y + sprite.h > target.h \/ x + sprite.w > target.w THEN None
        ELSE [kind |-> "image", w |-> target.w, h |-> target.h,
              x |-> x, y |-> y, sprite_w |-> sprite.w, sprite_h |-> sprite.h,
              strength |-> blend_strength, rotated |-> rotated]

AttributeError == [kind |-> "AttributeError"]

\* What blend_defect returns (lines 200-265); AttributeError when the object
\* has no cropped_defect yet, which line 204 reads outside the try.
blend_defect_result(blend_strength) ==
    IF defect_transfer.target_image = None THEN None
    ELSE IF defect_transfer.cropped_defect = Missing THEN AttributeError
    ELSE blend(apply_scale_only, blend_strength, 0)

\* blend_defect (lines 200-265).  The result is returned to the caller; the
\* object keeps nothing of it.
blend_defect ==
    \E blend_strength \in Strengths :
        LET returned == blend_defect_result(blend_strength)
        IN  /\ defect_transfer' =
                  IF returned = AttributeError
                  THEN [defect_transfer EXCEPT !.raised = "AttributeError"]
                  ELSE [defect_transfer EXCEPT !.result = returned, !.raised = ""]
            /\ UNCHANGED tool_frame

\* blend_defect_with_rotation (lines 267-328): the scaled sprite is rotated;
\* when the rotated sprite cannot be made or does not fit, blend_defect's
\* result is returned; a rotated result is also written to
\* debug_rotated_result.png.
blend_defect_with_rotation ==
    \E blend_strength \in Strengths :
        LET missing == /\ defect_transfer.target_image # None
                       /\ defect_transfer.cropped_defect = Missing
            scaled_defect == apply_scale_only
            transformed == apply_rotation_to_image(scaled_defect,
                                                   defect_transfer.current_rotation)
            rotated == IF scaled_defect.w < 1 \/ scaled_defect.h < 1 THEN None
                       ELSE blend(transformed, blend_strength,
                                  defect_transfer.current_rotation)
        IN  /\ defect_transfer' =
                  IF defect_transfer.target_image = None
                  THEN [defect_transfer EXCEPT !.result = None, !.raised = ""]
                  ELSE IF missing
                  THEN [defect_transfer EXCEPT !.raised = "AttributeError"]
                  ELSE IF rotated = None
                  THEN [defect_transfer EXCEPT
                           !.result = blend_defect_result(blend_strength), !.raised = ""]
                  ELSE [defect_transfer EXCEPT
                           !.result = rotated, !.raised = "",
                           !.disk = ("debug_rotated_result.png" :> rotated) @@ @]
            /\ UNCHANGED tool_frame

\* save_result (lines 331-337): transferred_defect is written, and
\* ValueError is raised when it is None.
save_result ==
    \E out_path \in {"out.jpg"} :
        /\ defect_transfer' =
              IF defect_transfer.transferred_defect = None
              THEN [defect_transfer EXCEPT !.raised = "ValueError"]
              ELSE [defect_transfer EXCEPT
                       !.raised = "",
                       !.disk = (out_path :> defect_transfer.transferred_defect) @@ @]
        /\ UNCHANGED tool_frame

TransferNext ==
    \/ load_images
    \/ set_defect_mask
    \/ set_position
    \/ set_scale
    \/ set_rotation
    \/ blend_defect
    \/ blend_defect_with_rotation
    \/ save_result

TransferSpec == TransferInit /\ [][TransferNext]_vars

\* C27: save_result raises ValueError exactly when no blend has produced a
\* result yet; once blend_defect or blend_defect_with_rotation has returned a
\* result image, save_result writes that image.
C27_SaveAfterBlendWrites ==
    [][save_result =>
          \E out_path \in {"out.jpg"} :
              IF defect_transfer.result = None
              THEN defect_transfer'.raised = "ValueError"
              ELSE /\ defect_transfer'.raised = ""
                   /\ out_path \in DOMAIN defect_transfer'.disk
                   /\ defect_transfer'.disk[out_path] = defect_transfer.result]_vars

Placed == inst # None /\ "branch" \in DOMAIN inst
\* The pass wrote the sprite onto the canvas.
Composited == Placed /\ inst.outcome \in {"blended", "overwritten"}
\* The canvas pixels of the rectangle [left, right) x [top, bottom).
InRect(p, left, top, right, bottom) ==
    left <= p[1] /\ p[1] < right /\ top <= p[2] /\ p[2] < bottom

\* C1: for a saved solid region with available_height > 0 and available_width > 0,
\* for every sampled offset and every sampled rotation angle, the placement
\* rectangle [left_x, right_x) x [top_y, bottom_y) computed before clipping
\* lies inside the region's bounding box [min_x, max_x] x [min_y, max_y].
C1_SolidPlacementInsideRegion ==
    (Placed /\ inst.branch = "solid offset"
            /\ layer_masks[inst.layer_num] # None /\ ~inst.hollow) =>
        /\ inst.min_x <= inst.left_x /\ inst.right_x - 1 <= inst.max_x
        /\ inst.min_y <= inst.top_y /\ inst.bottom_y - 1 <= inst.max_y

\* C2: for a hollow region whose mask has a nonzero pixel, the sampled centre
\* is a pixel at which the mask is nonzero, never one an inner contour removed,
\* whatever the sprite size.
C2_HollowCentreOnMask ==
    (Placed /\ inst.hollow /\ layer_masks[inst.layer_num] # None
            /\ inst.valid_pixel_count > 0) =>
        /\ <<inst.center_x, inst.center_y>> \in
               examined_array(inst.layer_num, TargetWidth, TargetHeight, inst.rz).px
        /\ inst.rz = "same shape" =>
               <<inst.center_x, inst.center_y>> \in layer_masks[inst.layer_num].px
        /\ layer_masks[inst.layer_num] =
               hollow_mask(<<RingOuter, RingInner>>, TargetWidth, TargetHeight) =>
               <<inst.center_x, inst.center_y>> \notin
                   fillPoly(RingInner, TargetWidth, TargetHeight)

C2_Witness ==
    /\ Placed /\ inst.branch = "hollow pixel" /\ inst.rz = "same shape"
    /\ <<inst.center_x, inst.center_y>> = <<RingInner.x1 - 1, RingInner.y1>>
    /\ Composited

\* C3: a recorded placement rectangle is the intersection of the unclipped
\* target rectangle with the canvas, 0 <= left < right <= width and
\* 0 <= top < bottom <= height; the sprite sub-window that is blended has the
\* size of this rectangle; no canvas pixel outside it is modified by the
\* instance.
C3_RecordedRectIsClip ==
    /\ \A j \in 1 .. Len(defect_info_list) :
          LET r == defect_info_list[j]
          IN  /\ 0 <= r.rect.left /\ r.rect.left < r.rect.right
              /\ r.rect.right <= TargetWidth
              /\ 0 <= r.rect.top /\ r.rect.top < r.rect.bottom
              /\ r.rect.bottom <= TargetHeight
              /\ r.defect_roi.w = r.rect.right - r.rect.left
              /\ r.defect_roi.h = r.rect.bottom - r.rect.top
    /\ Composited =>
          LET r == defect_info_list[Len(defect_info_list)]
          IN  /\ r.rect.left = max(0, inst.left_x)
              /\ r.rect.right = min(TargetWidth, inst.right_x)
              /\ r.rect.top = max(0, inst.top_y)
              /\ r.rect.bottom = min(TargetHeight, inst.bottom_y)
              /\ \A p \in Pixels(TargetWidth, TargetHeight) :
                    ~InRect(p, r.rect.left, r.rect.top, r.rect.right, r.rect.bottom)
                        => result_image.px[p] = inst.before.px[p]

C3_Witness ==
    /\ Composited
    /\ inst.left_x < 0 /\ inst.right_x > TargetWidth
    /\ inst.top_y < 0 /\ inst.bottom_y > TargetHeight
    /\ result_image # inst.before

\* C4: in every output image the polygon document has one shape and the
\* bounding-box document one object per defect instance composited onto the
\* image, none for a dropped one, in the same order; each object's bndbox
\* (xmin, ymin, xmax, ymax) is the instance's clipped rectangle (left, top,
\* right, bottom).
C4_Pass ==
    (pc = "defect" /\ k' = k + 1) =>
        IF "outcome" \in DOMAIN inst' /\ inst'.outcome \in {"blended", "overwritten"}
        THEN /\ Len(defect_info_list') = Len(defect_info_list) + 1
             /\ SubSeq(defect_info_list', 1, Len(defect_info_list)) = defect_info_list
             /\ defect_info_list'[Len(defect_info_list')].rect =
                    [left |-> max(0, inst'.left_x), top |-> max(0, inst'.top_y),
                     right |-> min(TargetWidth, inst'.right_x),
                     bottom |-> min(TargetHeight, inst'.bottom_y)]
        ELSE /\ defect_info_list' = defect_info_list
             /\ result_image' = result_image
C4_Written ==
    (pc = "defect" /\ pc' = "image") =>
        /\ Len(output'.json.shapes) = Len(defect_info_list)
        /\ Len(output'.xml.objects) = Len(defect_info_list)
        /\ \A j \in 1 .. Len(defect_info_list) :
              LET r == defect_info_list[j]
                  b == output'.xml.objects[j].bndbox
              IN  /\ <<b.xmin, b.ymin, b.xmax, b.ymax>> =
                         <<r.rect.left, r.rect.top, r.rect.right, r.rect.bottom>>
                  /\ output'.xml.objects[j].name = r.name
                  /\ output'.json.shapes[j].label = r.name
C4_OneRecordPerInstance == [][C4_Pass /\ C4_Written]_vars

C4_Witness ==
    /\ pc = "image" /\ output # None
    /\ Len(defects_to_transfer) = 2
    /\ Len(output.xml.objects) = 1 /\ Len(output.json.shapes) = 1
    /\ Composited /\ inst.defect = defects_to_transfer[2]

\* C5: a sprite with an alpha channel composited with blend strength 0 (the
\* defect's alpha range is [0,0]) leaves the canvas pixel-identical, for every
\* sprite mask and every placement.
C5_ZeroStrengthKeepsCanvas ==
    (Composited /\ inst.has_mask
        /\ defect_info(inst.defect).alpha_min = 0
        /\ defect_info(inst.defect).alpha_max = 0) =>
        result_image = inst.before

\* C6: a sprite without an alpha channel overwrites the overlap: after the
\* composite every canvas pixel of the clipped rectangle equals the
\* corresponding sprite pixel, for every requested blend strength.
C6_NoAlphaOverwrites ==
    (Composited /\ ~inst.has_mask) =>
        \A p \in Pixels(TargetWidth, TargetHeight) :
            InRect(p, max(0, inst.left_x), max(0, inst.top_y),
                   min(TargetWidth, inst.right_x), min(TargetHeight, inst.bottom_y))
            => result_image.px[p] =
                   sprite_colour(inst.defect, inst.angle, inst.new_w, inst.new_h,
                                 <<p[1] - inst.left_x, p[2] - inst.top_y>>)

C6_Witness ==
    /\ Composited /\ ~inst.has_mask
    /\ inst.alpha = 0
    /\ inst.left_x < 0 \/ inst.right_x > TargetWidth
    /\ result_image # inst.before

\* C7: with an empty or undecodable target image path, an empty save
\* directory, no defect enabled or no layer enabled, generate_batch ends before
\* the loop: no file is written, exactly one message is shown, and it is not
\* the success message.
NoDefectEnabled ==
    \A j \in 1 .. Len(selected_defect_paths) :
        ~(/\ selected_defect_paths[j] \in DOMAIN defect_selection_status
          /\ defect_selection_status[selected_defect_paths[j]])
NoLayerEnabled == \A l \in 1 .. Len(layer_checkboxes) : ~layer_checkboxes[l]
C7_ChecksAbortBeforeLoop ==
    (/\ pc # "idle"
     /\ \/ target_image_path = ""
        \/ imread_target(target_image_path) = None
        \/ save_dir = ""
        \/ NoDefectEnabled
        \/ NoLayerEnabled) =>
        /\ pc = "done" /\ i = 0
        /\ files = <<>> /\ output = None /\ result_image = None
        /\ Len(messages) = 1
        /\ messages[1] # success(generate_count, save_dir)

C7_Witness ==
    /\ pc = "done" /\ files = <<>>
    /\ save_dir = "" /\ target_image_path = "target.bmp"
    /\ ~NoDefectEnabled /\ ~NoLayerEnabled
    /\ messages = <<"warning: select a save path">>

\* C8: when a selected sprite cannot be decoded while image i + 1 is being
\* generated, the batch ends there: the files of the images before it stay
\* written, none is written for it or a later image, one error message is
\* shown and the success message is not.
FilesOfImages(n) ==
    /\ Len(files) = 3 * n
    /\ \A m \in 1 .. n :
          \E timestamp \in Timestamps :
              SubSeq(files, 3 * m - 2, 3 * m) = image_files(output_path(timestamp, m))
C8_Step ==
    /\ (/\ pc = "defect" /\ k <= Len(defects_to_transfer)
        /\ defects_to_transfer[k] \in unreadable) =>
           /\ pc' = "done"
           /\ FilesOfImages(i) /\ files' = files
           /\ messages' = <<"critical: batch transfer failed">>
    /\ pc = "done" => FALSE
C8_UndecodableSpriteAbortsBatch == [][C8_Step]_vars

C8_Witness ==
    /\ pc = "done" /\ i = 1 /\ generate_count = 2
    /\ FilesOfImages(1)
    /\ k = 2 /\ defects_to_transfer[k] \in unreadable
    /\ messages = <<"critical: batch transfer failed">>

\* C9: with the random-subset box ticked the defects of an image are k
\* pairwise distinct enabled defects, 1 <= k <= min(max defects per image,
\* number of enabled defects); with it unticked they are all enabled defects
\* in list order.  An unticked defect is never transferred.
EnabledDefects ==
    {name \in DOMAIN defect_selection_status :
        /\ defect_selection_status[name]
        /\ \E j \in 1 .. Len(selected_defect_paths) : selected_defect_paths[j] = name}
ListOrder(seq) ==
    \A a, b \in 1 .. Len(seq) :
        a < b => \E x, y \in 1 .. Len(selected_defect_paths) :
                    /\ x < y
                    /\ selected_defect_paths[x] = seq[a]
                    /\ selected_defect_paths[y] = seq[b]
C9_DefectsOfAnImage ==
    (pc = "defect" \/ (pc = "image" /\ i > 0)) =>
        /\ \A j \in 1 .. Len(defects_to_transfer) :
              defects_to_transfer[j] \in EnabledDefects
        /\ \A a, b \in 1 .. Len(defects_to_transfer) :
              a # b => defects_to_transfer[a] # defects_to_transfer[b]
        /\ IF chk_random_defect
           THEN /\ 1 <= Len(defects_to_transfer)
                /\ Len(defects_to_transfer) <=
                       min(spin_max_defects, Cardinality(EnabledDefects))
           ELSE /\ Len(defects_to_transfer) = Cardinality(EnabledDefects)
                /\ ListOrder(defects_to_transfer)
        /\ (inst # None /\ k > 1) => inst.defect = defects_to_transfer[k - 1]

C9_Witness ==
    /\ pc = "defect" /\ chk_random_defect /\ spin_max_defects = 2
    /\ defects_to_transfer = <<"b.bmp", "a.png">>
    /\ k = 3 /\ Composited /\ inst.defect = "a.png"

\* C10: the region used for an instance is a checked layer for which a region
\* has been saved: any of them with the random-layer box ticked, the first of
\* them in layer order otherwise.  A checked layer that never had a region
\* saved is not used.
SavedCheckedLayers ==
    {l \in 1 .. Len(layer_checkboxes) :
        layer_checkboxes[l] /\ l \in DOMAIN layer_masks /\ layer_masks[l] # None}
C10_RegionIsSavedCheckedLayer ==
    Placed =>
        /\ inst.layer_num \in SavedCheckedLayers
        /\ ~chk_random_layer => \A l \in SavedCheckedLayers : inst.layer_num <= l

\* C12: in every placement branch the scaled sprite height and width used
\* for sampling and handed to the resize step are each at least 10 pixels.
C12_SpriteAtLeastMinSize ==
    Placed => inst.scaled_h >= MinSpriteSize /\ inst.scaled_w >= MinSpriteSize

\* The pass placed its sprite by a saved layer that is not hollow.
PlacedOnSolid ==
    Placed /\ ~inst.hollow /\ layer_masks[inst.layer_num] # None

\* C13: a solid region whose raster has no nonzero pixel, or whose mask
\* processing failed, is sampled in the full canvas: the bounds are
\* 0 .. width-1 and 0 .. height-1 and the valid-pixel count is width*height.
C13_EmptySolidRegionIsWholeCanvas ==
    PlacedOnSolid
    /\ \/ layer_array(inst.layer_num, inst.before.w, inst.before.h).px = {}
       \/ inst.rz \in {"raises", "import fails"}
    => /\ inst.min_x = 0 /\ inst.max_x = inst.before.w - 1
       /\ inst.min_y = 0 /\ inst.max_y = inst.before.h - 1
       /\ inst.valid_pixel_count = inst.before.w * inst.before.h

C13_Witness ==
    /\ PlacedOnSolid
    /\ layer_array(inst.layer_num, inst.before.w, inst.before.h).px = {}
    /\ inst.branch = "solid offset"

\* The contour lists the hollow layers drawn on the current canvas were
\* saved from, outer contour first.
SavedFrom == {<<RingOuter, RingInner>>, <<CoveredOuter, CoveringInner>>}

\* C14 as stated: for a hollow region whose mask has no nonzero pixel the
\* centre is the midpoint of the bounding box of a contour the region was
\* saved from.
C14_EmptyHollowCentreIsContourMidpoint ==
    \A contours \in SavedFrom :
        /\ Placed /\ inst.hollow
        /\ layer_masks[inst.layer_num] =
               hollow_mask(contours, TargetWidth, TargetHeight)
        /\ layer_masks[inst.layer_num].px = {}
        => \E j \in 1 .. Len(contours) :
              /\ inst.center_x = (contours[j].x1 + contours[j].x2) \div 2
              /\ inst.center_y = (contours[j].y1 + contours[j].y2) \div 2

\* Lines 271-282 on the locals of the pass: no room for a random offset.
NoRoom ==
    LET layer_height == max(1, inst.max_y - inst.min_y + 1)
        layer_width == max(1, inst.max_x - inst.min_x + 1)
    IN  ~ /\ max(0, layer_height - inst.scaled_h) > 0
          /\ max(0, layer_width - inst.scaled_w) > 0

\* The centre is the floored midpoint of the bounds.
AtMidpoint ==
    /\ inst.center_x = (inst.min_x + inst.max_x) \div 2
    /\ inst.center_y = (inst.min_y + inst.max_y) \div 2

\* C15: for a solid region a random offset is used only when both
\* available_height > 0 and available_width > 0; otherwise the centre is the
\* floored bounding-box midpoint and the sprite is centred on the box, its
\* margins to opposite sides of the box differing by at most one pixel.
C15_SolidMidpointCentresSprite ==
    PlacedOnSolid /\ NoRoom
    => /\ AtMidpoint
       /\ abs((inst.left_x - inst.min_x) - (inst.max_x + 1 - inst.right_x)) <= 1
       /\ abs((inst.top_y - inst.min_y) - (inst.max_y + 1 - inst.bottom_y)) <= 1

\* The size of an h x w sprite turned by one of the explored angles: the
\* sides swap at 90 degrees, and at 45 degrees both become (h + w) / sqrt(2),
\* truncated; 0 and 360 degrees leave the size alone.
GrownSize(h, w, angle) ==
    IF angle = 45
    THEN LET side == ((h + w) * 7071068) \div 10000000 IN [h |-> side, w |-> side]
    ELSE IF angle = 90 THEN [h |-> w, w |-> h]
    ELSE [h |-> h, w |-> w]

\* C16: the unclipped target rectangle comes from the sampled centre and the
\* size of the transformed sprite only: top = centerY - floor(h/2),
\* left = centerX - floor(w/2), bottom = top + h, right = left + w with h, w
\* the size after scaling and after the growth of the rotation; the
\* bounding-box record is that rectangle cut to the canvas.
C16_RectFromCentreAndGrownSize ==
    Placed =>
        LET g == GrownSize(inst.scaled_h, inst.scaled_w, inst.angle)
            top == inst.center_y - g.h \div 2
            left == inst.center_x - g.w \div 2
        IN  /\ inst.top_y = top /\ inst.bottom_y = top + g.h
            /\ inst.left_x = left /\ inst.right_x = left + g.w
            /\ Composited =>
                  defect_info_list[Len(defect_info_list)].rect =
                      [left |-> max(0, left), top |-> max(0, top),
                       right |-> min(inst.before.w, left + g.w),
                       bottom |-> min(inst.before.h, top + g.h)]

C16_Witness ==
    /\ Composited
    /\ inst.angle = 45
    /\ inst.bottom_y - inst.top_y > inst.scaled_h
    /\ defect_info_list[Len(defect_info_list)].rect.bottom
          - defect_info_list[Len(defect_info_list)].rect.top > inst.scaled_h

\* The label the settings of a defect call for: its category, or
\* 'default_defect' when none was ever saved or the saved text is empty.
CategoryOrDefault(name) ==
    IF defect_info(name).defect_type \in {NoKey, ""} THEN "default_defect"
    ELSE defect_info(name).defect_type

\* C17: for every placed instance the label of its polygon shape and the
\* name of its XML object are equal, and are the configured category of the
\* defect, or 'default_defect' when it has none (never set, or saved empty).
C17_LabelIsCategoryOrDefault ==
    output # None =>
        \A j \in 1 .. Len(defect_info_list) :
            /\ output.json.shapes[j].label = output.xml.objects[j].name
            /\ output.json.shapes[j].label =
                  CategoryOrDefault(defect_info_list[j].defect_roi.name)

\* The base names of the raster files written so far, in writing order.
RasterNames ==
    LET rasters == SelectSeq(files, LAMBDA f : f.kind = "bmp")
    IN  [j \in 1 .. Len(rasters) |-> rasters[j].base]

\* The run passed the parameter checks and met no fatal error.
RanToTheEnd ==
    /\ pc = "done"
    /\ StartMessage = ""
    /\ \A j \in 1 .. Len(messages) : messages[j] # "critical: batch transfer failed"

InARecord(p, list) ==
    \E j \in 1 .. Len(list) :
        InRect(p, list[j].rect.left, list[j].rect.top,
               list[j].rect.right, list[j].rect.bottom)

\* C19: no mutable state crosses the iterations of a run: an iteration
\* starts from a canvas equal to the decoded target image and from an empty
\* record list; a written image differs from the target image only where
\* one of its own instances was composited; and the target image path, the
\* layer masks, the hollow flags, the defect settings and the defect ticks
\* are left as they were.
C19_Step ==
    /\ (pc = "image" /\ pc' = "defect") =>
           /\ result_image' = imread_target(target_image_path)
           /\ defect_info_list' = <<>>
    /\ (pc = "defect" /\ pc' = "image") =>
           \A p \in DOMAIN output'.image.px :
               output'.image.px[p] # imread_target(target_image_path).px[p]
                   => InARecord(p, defect_info_list)
    /\ UNCHANGED <<target_image_path, layer_masks, hollow_layers, preview_defects,
                   defect_selection_status>>
C19_IterationsIndependent == [][C19_Step]_vars

C19_Witness ==
    /\ pc = "image" /\ i = 2
    /\ output # None
    /\ Len(defect_info_list) = 1
    /\ output.image # imread_target(target_image_path)

\* The pass placed its sprite by a saved hollow layer whose raster has no
\* nonzero pixel.
PlacedOnEmptyHollow ==
    /\ Placed /\ inst.hollow
    /\ layer_masks[inst.layer_num] # None
    /\ layer_masks[inst.layer_num].px = {}

\* C14, amended: for a hollow region whose mask has no nonzero pixel the
\* centre is the midpoint of the whole canvas, (floor((width - 1) / 2),
\* floor((height - 1) / 2)).
C14_EmptyHollowCentreIsCanvasMidpoint ==
    PlacedOnEmptyHollow
    => /\ inst.center_x = (inst.before.w - 1) \div 2
       /\ inst.center_y = (inst.before.h - 1) \div 2

C14_Witness ==
    /\ PlacedOnEmptyHollow
    /\ inst.valid_pixel_count = 0
    /\ inst.branch = "hollow midpoint"

\* A step of save_current_layer that stores a raster: several contours and a
\* target image that decodes.
SavesHollow ==
    /\ contour_points # <<>> /\ contour_points' = <<>>
    /\ layer_contours[current_layer] # <<>>
    /\ layer_contours'[current_layer] = <<>>
    /\ imread_target(target_image_path) # None
    /\ layer_masks'[current_layer] # None

\* The contours of that step, outer contour first.
SavedContours == Append(layer_contours[current_layer], contour_points)

\* fill(c): the pixels of the canvas inside contour c.
Fill(c) == fillPoly(c, TargetWidth, TargetHeight)

\* The sum over the inner contours of pixelCount(fill(Ij) meet fill(O)).
RECURSIVE SumOfInner(_, _)
SumOfInner(inners, outer) ==
    IF inners = <<>> THEN 0
    ELSE Cardinality(Fill(Head(inners)) \cap Fill(outer))
         + SumOfInner(Tail(inners), outer)

\* The pixels of the outer contour that some inner contour covers.
CoveredByInner(inners, outer) ==
    {p \in Fill(outer) : \E j \in 1 .. Len(inners) : p \in Fill(inners[j])}

\* C20 as stated: the stored mask of a hollow region saved from O and
\* I1..In has pixelCount(fill(O)) minus the sum over j of
\* pixelCount(fill(Ij) meet fill(O)) nonzero pixels, and never fewer than 0.
C20_Stated ==
    SavesHollow =>
        LET outer == Head(SavedContours)
            inners == Tail(SavedContours)
            count == Cardinality(layer_masks'[current_layer].px)
        IN  /\ hollow_layers'[current_layer]
            /\ count = Cardinality(Fill(outer)) - SumOfInner(inners, outer)
            /\ count >= 0
C20_CountIsOuterMinusSumOfInner == [][C20_Stated]_vars

\* C20, amended: the stored mask has pixelCount(fill(O)) minus the number of
\* pixels of fill(O) that lie in at least one fill(Ij) nonzero pixels (a
\* pixel covered by several inner contours is taken off once), and never
\* fewer than 0.
C20_Amended ==
    SavesHollow =>
        LET outer == Head(SavedContours)
            inners == Tail(SavedContours)
            count == Cardinality(layer_masks'[current_layer].px)
        IN  /\ hollow_layers'[current_layer]
            /\ count = Cardinality(Fill(outer))
                          - Cardinality(CoveredByInner(inners, outer))
            /\ count >= 0
C20_CountIsOuterMinusUnionOfInner == [][C20_Amended]_vars

\* A layer saved from the outer rectangle, the one inside it and the one
\* that overlaps it and reaches outside.
C20_Witness ==
    /\ current_layer \in DOMAIN hollow_layers /\ hollow_layers[current_layer]
    /\ layer_masks[current_layer] =
          hollow_mask(<<DrawnOuter, DrawnInside, DrawnAcross>>, TargetWidth, TargetHeight)
    /\ layer_contours[current_layer] = <<>>


\* The last pass of the per-defect loop failed inside the try of line 298.
Failed == inst # None /\ "outcome" \in DOMAIN inst /\ inst.outcome = "error"

\* C24: a failure while one instance is resized, rotated or composited drops
\* that instance only: no record is added, no file is written and no box is
\* shown by the pass; the loop goes on with the next defect of the image; the
\* image and its two documents are written at the end of the loop and the
\* batch goes on with the next image.
C24_Step ==
    /\ (/\ pc = "defect" /\ k' = k + 1
        /\ "outcome" \in DOMAIN inst' /\ inst'.outcome = "error") =>
           /\ defect_info_list' = defect_info_list
           /\ defects_to_transfer' = defects_to_transfer
           /\ pc' = "defect" /\ i' = i
           /\ files' = files /\ messages' = messages
    /\ (/\ pc = "defect" /\ Failed /\ k <= Len(defects_to_transfer)
        /\ Loadable(defects_to_transfer[k])) =>
           /\ k' = k + 1 /\ pc' = "defect"
           /\ inst'.defect = defects_to_transfer[k]
    /\ (pc = "defect" /\ Failed /\ k > Len(defects_to_transfer)) =>
           /\ \E timestamp \in Timestamps :
                 files' = files \o image_files(output_path(timestamp, i + 1))
           /\ Len(output'.json.shapes) = Len(defect_info_list)
           /\ Len(output'.xml.objects) = Len(defect_info_list)
           /\ messages' = messages
           /\ pc' = "image" /\ i' = i + 1
C24_FailedInstanceIsDropped == [][C24_Step]_vars

C24_Witness ==
    /\ pc = "image" /\ output # None /\ i < generate_count
    /\ Failed
    /\ Len(defects_to_transfer) = 2
    /\ Len(output.json.shapes) = 1
    /\ messages = <<>>

C29_PointsArePixels ==
    output # None =>
        \A j \in DOMAIN output.json.shapes :
            \A point \in output.json.shapes[j].points :
                LET rect == defect_info_list[j].rect
                IN  /\ 0 <= point[1] /\ point[1] < output.json.imageWidth
                    /\ 0 <= point[2] /\ point[2] < output.json.imageHeight
                    /\ InRect(point, rect.left, rect.top, rect.right, rect.bottom)

\* The polygon document and the bounding-box document of the image written
\* hold one entry each, and the box is the square the block was placed on.
OneBlockRecorded ==
    /\ Len(output.json.shapes) = 1
    /\ Len(output.xml.objects) = 1
    /\ output.xml.objects[1].bndbox =
           [xmin |-> inst.left_x, ymin |-> inst.top_y,
            xmax |-> inst.left_x + BlockSize, ymax |-> inst.top_y + BlockSize]

C30_SelectedPathsIsAList ==
    /\ selected_defect_paths # Deleted
    /\ selected_defect_paths \in Seq({"a.png", "b.bmp"})
====
